----------------------------- MODULE RpcConfig ------------------------------
(***************************************************************************)
(* How a gRPC server or client is configured (rpc/src/lib.rs): settings    *)
(* come from a file, unchecked, or from builders that assert; try_new      *)
(* validates them; and then they are handed to the TLS stack, the timeout  *)
(* layer, the etcd client (core/src/etcd.rs) and timers, each of which has *)
(* its own idea of what is valid.  A duration is 0 or positive, an Option is a    *)
(* set, a string is a class of strings and a path its parts at '/'.        *)
(***************************************************************************)
EXTENDS Naturals, Sequences, FiniteSets

CONSTANTS MaxSettings    \* bound: settings made before try_new

VARIABLES
  role,      \* "server" or "client"
  from,      \* "file" or "builder"
  server, registration, client,   \* the settings; registration is an Option
  settings,  \* how many were made
  asked,     \* history: <<path, timeout>> set through a builder, the latest first
  stage      \* "build", "asserted", "refused", "accepted", "running", "failed", "panicked"

vars == <<role, from, server, registration, client, settings, asked, stage>>

None == {}
Some(v) == {v}
Durations == {0, 1}
Optional(S) == {None} \cup {Some(v) : v \in S}
Texts == {"empty", "blank", "text"}        \* trim().is_empty(), or not
Pems == {"blank", "text", "pem"}           \* "text" is not PEM
Names == {"blank", "name", "a/b"}
blank(s) == s \in {"empty", "blank"}
is_zero(o) == o = Some(0)

-----------------------------------------------------------------------------
(* paths: "/s/m" is <<"", "s", "m">>, "s/m" is <<"s", "m">>                *)

Spelled == {<<"", "s", "m">>, <<"s", "m">>, <<"", "s">>, <<"s">>, <<"", "s", "m", "x">>, <<"s", "">>}
lead(p) == IF Len(p) > 1 /\ p[1] = "" THEN p ELSE <<"">> \o p
normalize_method(p) ==
  LET q == lead(p) IN IF Len(q) = 3 /\ q[2] # "" /\ q[3] # "" THEN Some(q) ELSE None
normalize_service(p) ==
  LET q == lead(p) IN IF Len(q) = 2 /\ q[2] # "" THEN Some(q) ELSE None

\* a BTreeMap as a set of pairs; insert replaces
insert(map, k, v) == {e \in map : e[1] # k} \cup {<<k, v>>}
get(map, k) == {e[2] : e \in {x \in map : x[1] = k}}
or(a, b) == IF a = None THEN b ELSE a


rsplit_once_service(p) == SubSeq(p, 1, Len(p) - 1)

\* RpcServerTimeoutLayer::timeout
timeout(p) ==
  or(get(server.method_timeouts, p),
     or(get(server.service_timeouts, rsplit_once_service(p)), server.request_timeout))

-----------------------------------------------------------------------------
(* defaults                                                                *)

default_server ==
  [request_timeout |-> None, method_timeouts |-> {}, service_timeouts |-> {},
   concurrency_limit |-> None, max_concurrent_streams |-> None, shutdown_timeout |-> 1,
   tls |-> None]
default_client ==
  [uri |-> "text", request_timeout |-> None, connect_timeout |-> None, concurrency_limit |-> None,
   tcp_keepalive |-> None, http2_keepalive_interval |-> None, keepalive_timeout |-> None,
   discovery_health_interval |-> None, discovery_health_timeout |-> None,
   discovery_subset_size |-> None, tls |-> None]
new_registration ==
  [endpoints |-> {"text"}, namespace |-> "name", username |-> None, password |-> None,
   connect_timeout |-> 1, tls |-> None, service |-> "name", instance |-> "name",
   endpoint |-> "uri", lease_ttl |-> 1]
ServerTls == [certificate |-> "pem", private_key |-> "pem", client_ca |-> None]
ClientTls == [ca |-> "pem", certificate |-> None, private_key |-> None, domain_name |-> None]

Init ==
  /\ role \in {"server", "client"} /\ from \in {"file", "builder"}
  /\ server = default_server /\ registration = None /\ client = default_client
  /\ settings = 0 /\ asked = <<>> /\ stage = "build"

-----------------------------------------------------------------------------
(* settings                                                                *)

\* A builder asserts that a duration or a limit is positive; a file does not.
Setting(positive) ==
  /\ stage = "build" /\ settings < MaxSettings
  /\ settings' = settings + 1
  /\ stage' = IF from = "builder" /\ ~positive THEN "asserted" ELSE "build"
  /\ UNCHANGED <<role, from>>

with_server ==
  /\ role = "server" /\ UNCHANGED <<registration, client, asked>>
  /\ \/ \E f \in {"request_timeout", "concurrency_limit", "max_concurrent_streams"}, v \in Durations :
          Setting(v > 0) /\ server' = [server EXCEPT ![f] = Some(v)]
     \/ \E v \in Durations : Setting(v > 0) /\ server' = [server EXCEPT !.shutdown_timeout = v]
     \/ \E tls \in [certificate : Pems, private_key : {"blank", "pem"}, client_ca : Optional({"blank", "pem"})] :
          Setting(TRUE) /\ server' = [server EXCEPT !.tls = Some(tls)]

\* with_method_timeout and with_service_timeout store the canonical key.
with_path_timeout(kind) ==
  /\ role = "server" /\ UNCHANGED <<registration, client>>
  /\ \E p \in Spelled, v \in 0..2 :
       LET normal == IF kind = "method_timeouts" THEN normalize_method(p) ELSE normalize_service(p)
           keys == IF from = "file" THEN Some(p) ELSE normal
       IN /\ Setting(v > 0 /\ normal # None)
          /\ server' = IF keys = None THEN server
                       ELSE [server EXCEPT ![kind] = insert(@, CHOOSE k \in keys : TRUE, v)]
          /\ asked' = IF from = "builder" /\ keys # None THEN <<<<lead(p), v>>>> \o asked ELSE asked

with_registration ==
  /\ role = "server" /\ UNCHANGED <<server, client, asked>>
  /\ \/ registration = None /\ Setting(TRUE) /\ registration' = Some(new_registration)
     \/ \E r \in registration, e \in SUBSET {"blank", "text"} :
          /\ Setting(TRUE) /\ registration' = Some([r EXCEPT !.endpoints = e])
     \/ \E r \in registration, f \in {"namespace", "service", "instance"}, n \in Names \cup {"empty"} :
          Setting(TRUE) /\ registration' = Some([r EXCEPT ![f] = n])
     \/ \E r \in registration, u \in {"blank", "text", "uri"} :
          Setting(TRUE) /\ registration' = Some([r EXCEPT !.endpoint = u])
     \/ \E r \in registration, f \in {"connect_timeout", "lease_ttl"}, v \in Durations :
          Setting(v > 0) /\ registration' = Some([r EXCEPT ![f] = v])
     \/ \E r \in registration, u, p \in Optional({"text"}) :
          /\ from = "builder" => u # None /\ p # None
          /\ Setting(TRUE) /\ registration' = Some([r EXCEPT !.username = u, !.password = p])
     \/ \E r \in registration, tls \in [ca : {"blank", "pem"}, certificate : Optional({"pem"}),
                                        private_key : Optional({"blank", "pem"}), domain_name : Optional({"blank"})] :
          /\ from = "builder" => (tls.certificate = None) = (tls.private_key = None)
          /\ Setting(TRUE) /\ registration' = Some([r EXCEPT !.tls = Some(tls)])

with_client ==
  /\ role = "client" /\ UNCHANGED <<server, registration, asked>>
  /\ \/ \E u \in {"blank", "text"} : Setting(TRUE) /\ client' = [client EXCEPT !.uri = u]
     \/ \E f \in {"request_timeout", "connect_timeout", "concurrency_limit", "tcp_keepalive",
                  "discovery_subset_size"}, v \in Durations :
          Setting(v > 0) /\ client' = [client EXCEPT ![f] = Some(v)]
     \/ \E i, t \in Optional(Durations) :     \* a builder sets both of a pair
          /\ from = "builder" => i # None /\ t # None
          /\ Setting(~is_zero(i) /\ ~is_zero(t))
          /\ \/ client' = [client EXCEPT !.http2_keepalive_interval = i, !.keepalive_timeout = t]
             \/ client' = [client EXCEPT !.discovery_health_interval = i, !.discovery_health_timeout = t]
     \/ \E tls \in [ca : {"blank", "pem"}, certificate : Optional({"pem"}),
                    private_key : Optional({"blank", "pem"}), domain_name : Optional({"blank", "text"})] :
          /\ from = "builder" => (tls.certificate = None) = (tls.private_key = None)
          /\ Setting(TRUE) /\ client' = [client EXCEPT !.tls = Some(tls)]

-----------------------------------------------------------------------------
(* validate                                                                *)

validate_pem(p) == ~blank(p)
validate_server_tls(t) ==
  /\ validate_pem(t.certificate) /\ validate_pem(t.private_key)
  /\ \A ca \in t.client_ca : validate_pem(ca)

\* RpcClientTlsConfig::validate
validate_client_tls(t) ==
  /\ validate_pem(t.ca)
  /\ (t.certificate = None) = (t.private_key = None)
  /\ \A p \in t.certificate \cup t.private_key : validate_pem(p)
  /\ \A d \in t.domain_name : ~blank(d)

\* EtcdTlsConfig::validate, which RpcEtcdRegistrationConfig::validate repeats
validate_etcd_tls(t) ==
  /\ ~blank(t.ca)
  /\ (t.certificate = None) = (t.private_key = None)
  /\ \A p \in t.certificate \cup t.private_key \cup t.domain_name : ~blank(p)

validate_rpc_name(s) == ~blank(s) /\ s # "a/b"

\* Fault: the connection timeout is not looked at.
validate_registration_untimed(r) ==
  /\ r.endpoints # {} /\ \A e \in r.endpoints : ~blank(e)
  /\ validate_rpc_name(r.service) /\ validate_rpc_name(r.instance)
  /\ ~blank(r.endpoint) /\ r.endpoint = "uri"
  /\ r.lease_ttl > 0
  /\ (r.username = None) = (r.password = None)
  /\ r.namespace \notin {"empty", "a/b"}
  /\ \A t \in r.tls : validate_etcd_tls(t)

\* The namespace is trimmed of '/', not of blanks.
validate_registration(r) ==
  /\ r.endpoints # {} /\ \A e \in r.endpoints : ~blank(e)
  /\ validate_rpc_name(r.service) /\ validate_rpc_name(r.instance)
  /\ ~blank(r.endpoint) /\ r.endpoint = "uri"
  /\ r.connect_timeout > 0 /\ r.lease_ttl > 0
  /\ (r.username = None) = (r.password = None)
  /\ r.namespace \notin {"empty", "a/b"}
  /\ \A t \in r.tls : validate_etcd_tls(t)

validate_server ==
  /\ ~is_zero(server.request_timeout)
  /\ \A e \in server.method_timeouts : e[2] > 0 /\ normalize_method(e[1]) = Some(e[1])
  /\ \A e \in server.service_timeouts : e[2] > 0 /\ normalize_service(e[1]) = Some(e[1])
  /\ ~is_zero(server.concurrency_limit) /\ ~is_zero(server.max_concurrent_streams)
  /\ server.shutdown_timeout > 0
  /\ \A t \in server.tls : validate_server_tls(t)
  /\ \A r \in registration : validate_registration(r)

validate_client ==
  /\ ~blank(client.uri)
  /\ \A f \in {"request_timeout", "connect_timeout", "tcp_keepalive", "http2_keepalive_interval",
               "keepalive_timeout", "discovery_health_interval", "discovery_health_timeout",
               "concurrency_limit", "discovery_subset_size"} : ~is_zero(client[f])
  /\ (client.http2_keepalive_interval = None) = (client.keepalive_timeout = None)
  /\ (client.discovery_health_interval = None) = (client.discovery_health_timeout = None)
  /\ \A t \in client.tls : validate_client_tls(t)

try_new ==
  /\ stage = "build"
  /\ stage' = IF (IF role = "server" THEN validate_server ELSE validate_client)
              THEN "accepted" ELSE "refused"
  /\ UNCHANGED <<role, from, server, registration, client, settings, asked>>

-----------------------------------------------------------------------------
(* use                                                                     *)

\* tonic parses the PEM material when it is handed over.
Malformed == \E t \in server.tls : "text" \in {t.certificate, t.private_key} \cup t.client_ca

\* router expects what try_router reports
router ==
  /\ role = "server" /\ stage = "accepted"
  /\ stage' \in IF Malformed THEN {"panicked", "failed"} ELSE {"accepted"}
  /\ UNCHANGED <<role, from, server, registration, client, settings, asked>>

\* normalize_namespace and validate_name of the etcd client
validate_name(n) == ~blank(n) /\ n # "a/b"
normalize_namespace(n) == n # "empty" /\ validate_name(n)

\* EtcdConfig::with_timeout asserts
etcd_config(r) == r.connect_timeout > 0

\* connect and publish report
serve_with_shutdown ==
  /\ role = "server" /\ stage = "accepted" /\ ~Malformed
  /\ stage' = IF \E r \in registration : ~etcd_config(r) THEN "panicked"
              ELSE IF \A r \in registration :
                        /\ r.endpoints # {} /\ normalize_namespace(r.namespace)
                        /\ \A t \in r.tls : validate_etcd_tls(t)
                        /\ validate_name(r.service) /\ validate_name(r.instance) /\ r.lease_ttl > 0
                   THEN "running" ELSE "failed"
  /\ UNCHANGED <<role, from, server, registration, client, settings, asked>>

\* The channel's timers: tokio::time::interval panics on a period of zero.
connect_discovered ==
  /\ role = "client" /\ stage = "accepted"
  /\ stage' = IF is_zero(client.discovery_health_interval) THEN "panicked" ELSE "running"
  /\ UNCHANGED <<role, from, server, registration, client, settings, asked>>

Next ==
  \/ with_server \/ with_registration \/ with_client
  \/ with_path_timeout("method_timeouts")
  \/ with_path_timeout("service_timeouts")
  \/ try_new \/ router \/ serve_with_shutdown \/ connect_discovered

Spec == Init /\ [][Next]_vars

-----------------------------------------------------------------------------

TypeOK ==
  /\ role \in {"server", "client"} /\ from \in {"file", "builder"}
  /\ settings \in 0..MaxSettings /\ Cardinality(registration) <= 1
  /\ stage \in {"build", "asserted", "refused", "accepted", "running", "failed", "panicked"}

\* Settings that try_new has accepted, from a file or from builders, are good
\* for every layer they reach: no assertion fires, no timer panics and etcd
\* refuses nothing, but for PEM text that is not PEM (router panics on it) and
\* a namespace of blanks, which only the etcd client looks at.
AcceptedIsUsable ==
  /\ stage = "panicked" => Malformed
  /\ stage = "failed" => Malformed \/ \E r \in registration : r.namespace = "blank"

\* "Applies an exact-method timeout, then a service timeout, then the global
\* fallback": in a configuration that was accepted the layer finds, for a call
\* of /s/m, the last timeout a builder was given for it, in either spelling.
TimeoutsFound ==
  stage \in {"accepted", "running"} /\ from = "builder" =>
    LET last(p) == LET at == {i \in DOMAIN asked : asked[i][1] = p}
                   IN  IF at = {} THEN None ELSE Some(asked[CHOOSE i \in at : \A j \in at : i <= j][2])
    IN  timeout(<<"", "s", "m">>) =
          or(last(<<"", "s", "m">>), or(last(<<"", "s">>), server.request_timeout))
=============================================================================
