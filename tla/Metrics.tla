------------------------------ MODULE Metrics -------------------------------
(***************************************************************************)
(* The metric registry (core/src/metric.rs) and the instruments that use   *)
(* it: HTTP server and HTTP client metrics (rest/src/metrics.rs) and gRPC  *)
(* metrics (rpc/src/metrics.rs).  Calls on several threads update three    *)
(* families one lock at a time while a scrape renders the families in name *)
(* order, one lock at a time; the registry itself is locked for the whole  *)
(* rendering.  Durations are small numbers, labels a path and a code.      *)
(***************************************************************************)
EXTENDS Integers, Sequences, FiniteSets

CONSTANTS
  Calls,       \* calls made through the instrument
  Paths,       \* what they ask for
  Known,       \* the registered RPC methods or matched route patterns
  Durations,   \* what a call may take
  Bounds,      \* the histogram's finite upper bounds, increasing
  MaxNews      \* bound: attempts to construct the instrument

VARIABLES
  set,         \* whose families: "http", "http_client", "rpc" or the "app"
  namespace,   \* its namespace
  values,      \* registered family -> its series: labels -> value
  kinds,       \* registered family -> kind
  news,        \* attempts so far
  building,    \* families the running constructor still has to register
  handle,      \* the instrument is constructed
  call,        \* state of each call
  at,          \* families the running scrape still has to render, or "idle"
  seen         \* what the scrape rendered

registry == <<values, kinds>>
vars == <<set, namespace, values, kinds, news, building, handle, call, at, seen>>

Idle == <<"idle">>
Updated(f, k, v) == [x \in DOMAIN f \cup {k} |-> IF x = k THEN v ELSE f[x]]
or_default(f, k, d) == IF k \in DOMAIN f THEN f[k] ELSE d

-----------------------------------------------------------------------------
(* the registry                                                            *)

\* namespace, subsystem and name, the empty ones left out
name(ns, n) == SelectSeq(<<ns, n>>, LAMBDA part : part # "")
is_valid_identifier(parts) == Head(parts) # "9x"

validate_options(ns, n, labels) ==
  CASE ~is_valid_identifier(name(ns, n)) -> "InvalidMetricName"
    [] \E l \in 1..Len(labels) : labels[l] = "9x" -> "InvalidLabelName"
    [] Cardinality({labels[l] : l \in 1..Len(labels)}) < Len(labels) -> "DuplicateLabel"
    [] OTHER -> "ok"

\* the buckets of a histogram are positive and strictly increasing
valid_buckets(buckets) ==
  /\ \A b \in 1..Len(buckets) : buckets[b] > 0
  /\ \A b \in 1..Len(buckets) - 1 : buckets[b] < buckets[b + 1]

Unlocked == at = Idle

\* insert: a taken name is refused, and the family stays as it is.
insert(n, kind) ==
  /\ Unlocked
  /\ values' = Updated(values, n, <<>>) /\ kinds' = Updated(kinds, n, kind)

\* counter_vec, gauge_vec and histogram_vec: the outcome, and the effect.
Outcome(n, kind, labels, buckets) ==
  LET checked == validate_options(namespace, n, labels) IN
  IF checked # "ok" THEN checked
  ELSE IF kind = "histogram" /\ ~valid_buckets(buckets) THEN "InvalidHistogramBuckets"
  ELSE IF n \in DOMAIN kinds THEN "DuplicateMetric" ELSE "ok"
register(n, kind, labels, buckets) ==
  IF Outcome(n, kind, labels, buckets) = "ok" THEN insert(n, kind)
  ELSE UNCHANGED registry

\* The application registers a family of its own, perhaps under a name the
\* instrument also uses, perhaps wrongly.
AppRegister ==
  /\ Unlocked /\ ~handle
  /\ \E n \in {IF set = "app" THEN "app" ELSE "in_flight"}, kind \in {"counter", "gauge", "histogram"},
        labels \in {<<"l">>, <<"l", "l">>, <<"9x">>}, buckets \in {<<1, 2>>, <<2, 1>>, <<0>>} :
       register(n, kind, labels, buckets)
  /\ UNCHANGED <<set, namespace, news, building, handle, call, at, seen>>

-----------------------------------------------------------------------------
(* values                                                                  *)

Series(n) == values[n]
Put(n, labels, v) == [values EXCEPT ![n] = Updated(@, labels, v)]

counter_add(n, labels, v) == Put(n, labels, or_default(Series(n), labels, 0) + v)
gauge_add(n, labels, v) == Put(n, labels, or_default(Series(n), labels, 0) + v)
gauge_set(n, labels, v) == Put(n, labels, v)
observe(n, labels, v) == Put(n, labels, Append(or_default(Series(n), labels, <<>>), v))

\* A use of the application's family: a value that is not finite, a negative
\* counter increment or a wrong number of labels is refused.
AppUpdate ==
  /\ "app" \in DOMAIN kinds
  /\ \E v \in {-1, 1}, finite \in BOOLEAN, labels \in {<<"x">>, <<"x", "y">>} :
       LET valid == finite /\ Len(labels) = 1 IN
       values' =
         CASE kinds["app"] = "counter" -> IF valid /\ v >= 0 /\ Series("app") = <<>>
                                          THEN counter_add("app", labels, v) ELSE values
           [] kinds["app"] = "gauge" -> IF valid THEN gauge_set("app", labels, v) ELSE values
           [] OTHER -> IF valid /\ Series("app") = <<>> THEN observe("app", labels, v) ELSE values
  /\ UNCHANGED <<set, namespace, kinds, news, building, handle, call, at, seen>>

-----------------------------------------------------------------------------
(* the constructors                                                        *)

HttpMetrics == <<"total", "duration", "in_flight", "protection">>
HttpClientMetrics == <<"total", "duration", "in_flight">>
RpcMetrics == <<"total", "duration", "in_flight">>
Families ==
  CASE set = "http" -> HttpMetrics
    [] set = "http_client" -> HttpClientMetrics
    [] set = "rpc" -> RpcMetrics
    [] set = "app" -> <<>>
KindOf(n) ==
  CASE n = "duration" -> "histogram" [] n = "in_flight" -> "gauge" [] OTHER -> "counter"

new ==
  /\ ~handle /\ building = <<>> /\ news < MaxNews /\ Families # <<>>
  /\ news' = news + 1 /\ building' = Families
  /\ UNCHANGED <<set, namespace, values, kinds, handle, call, at, seen>>

\* One `?` of the constructor; a refusal leaves what it registered before.
NewStep ==
  /\ building # <<>> /\ Unlocked
  /\ LET n == Head(building)
         ok == Outcome(n, KindOf(n), <<"method">>, Bounds) = "ok" IN
     /\ register(n, KindOf(n), <<"method">>, Bounds)
     /\ building' = IF ok THEN Tail(building) ELSE <<>>
     /\ handle' = (ok /\ Len(building) = 1)
  /\ UNCHANGED <<set, namespace, news, call, at, seen>>

-----------------------------------------------------------------------------
(* calls                                                                   *)

New == [at |-> "new", path |-> "", code |-> "", took |-> 0, finished |-> FALSE, body |-> FALSE]

\* Requests for any other path share one label.
method(path) == IF set = "http_client" \/ path \in Known THEN path ELSE "unknown"
Labels(c) == <<method(call[c].path), call[c].code>>
Gauge(c) == <<method(call[c].path)>>
Goto(c, l) == call' = [call EXCEPT ![c].at = l]
Quiet == UNCHANGED <<set, namespace, kinds, news, building, handle, at, seen>>

\* RpcMetrics::start, track_in_flight
start(c) ==
  /\ handle /\ call[c].at = "new"
  /\ \E p \in Paths :
       /\ call' = [call EXCEPT ![c] = [New EXCEPT !.at = "called", !.path = p]]
       /\ values' = gauge_add("in_flight", <<method(p)>>, 1)
  /\ Quiet

\* Fault: the observation does not remember that it has finished.
FinishAgain(c, code) ==
  \E d \in Durations :
    call' = [call EXCEPT ![c] = [@ EXCEPT !.finished = TRUE, !.code = code, !.took = d, !.at = "count"]]

\* RpcObservation::finish, as far as its test of `finished`.
finish(c, code) ==
  IF call[c].finished THEN Goto(c, "done")
  ELSE \E d \in Durations :
         call' = [call EXCEPT ![c] = [@ EXCEPT !.finished = TRUE, !.code = code, !.took = d, !.at = "count"]]

\* The inner service answers.  HTTP records the status, 500 for an error; gRPC
\* finishes on a header code or an error, or else waits for the body (grpc_code:
\* two codes stand for all).
Answer(c) ==
  /\ call[c].at = "called" /\ UNCHANGED values /\ Quiet
  /\ \/ set # "rpc" /\ \E code \in {"200", "500"} : finish(c, code)
     \/ set = "rpc" /\ \E code \in {"0", "transport_error"} : finish(c, code)
     \/ set = "rpc" /\ call' = [call EXCEPT ![c].at = "body", ![c].body = TRUE]

\* RpcMetricsBody::poll_frame: trailers with a code, an error, or the end.
poll_frame(c) ==
  /\ call[c].at = "body" /\ UNCHANGED values /\ Quiet
  /\ \E code \in {"0", "body_error"} : finish(c, code)

\* The caller goes away: the HTTP future drops its guard without recording, the
\* gRPC observation records a cancelled call.
Cancel(c) ==
  /\ call[c].at \in {"called", "body"} /\ UNCHANGED values /\ Quiet
  /\ IF set = "rpc" THEN finish(c, "cancelled") ELSE Goto(c, "leave")

Count(c) ==
  /\ call[c].at = "count" /\ Goto(c, "observe") /\ Quiet
  /\ values' = counter_add("total", Labels(c), 1)

Observe(c) ==
  /\ call[c].at = "observe" /\ Goto(c, "leave") /\ Quiet
  /\ values' = observe("duration", Labels(c), call[c].took)

Leave(c) ==
  /\ call[c].at = "leave" /\ Goto(c, IF set = "rpc" THEN "drop" ELSE "done") /\ Quiet
  /\ values' = gauge_add("in_flight", Gauge(c), -1)

\* impl Drop for RpcObservation: a finished observation is dropped too.
Drop(c) == call[c].at = "drop" /\ finish(c, "cancelled") /\ UNCHANGED values /\ Quiet

\* record_protection: a layer of the HTTP server rejects a call (once: a bound).
record_protection ==
  /\ handle /\ set = "http" /\ Series("protection") = <<>>
  /\ values' = counter_add("protection", <<"timeout", "rejected">>, 1)
  /\ UNCHANGED call /\ Quiet

-----------------------------------------------------------------------------
(* rendering                                                               *)

\* the registry's BTreeMap order
Order == <<"app", "protection", "duration", "in_flight", "total">>

AtMost(obs, b) == Cardinality({i \in 1..Len(obs) : obs[i] <= b})

\* Fault: the running count is carried from bucket to bucket.
BucketsCarried(obs) ==
  [b \in 1..Len(Bounds) |-> IF b = 1 THEN AtMost(obs, Bounds[1])
                            ELSE AtMost(obs, Bounds[b - 1]) + AtMost(obs, Bounds[b])]

\* the count is set to zero after each bucket is written
Buckets(obs) == [b \in 1..Len(Bounds) |-> AtMost(obs, Bounds[b])]

Rendered(n) ==
  IF kinds[n] = "histogram"
  THEN [l \in DOMAIN Series(n) |-> [buckets |-> Buckets(Series(n)[l]), count |-> Len(Series(n)[l])]]
  ELSE Series(n)

render ==
  /\ at = Idle /\ seen = <<>> /\ (handle \/ set = "app")
  /\ at' = SelectSeq(Order, LAMBDA n : n \in DOMAIN kinds)
  /\ UNCHANGED <<set, namespace, values, kinds, news, building, handle, call, seen>>

RenderFamily ==
  /\ at # Idle /\ at # <<>>
  /\ seen' = Updated(seen, Head(at), Rendered(Head(at))) /\ at' = Tail(at)
  /\ UNCHANGED <<set, namespace, values, kinds, news, building, handle, call>>

-----------------------------------------------------------------------------
Init ==
  /\ set \in {"http", "http_client", "rpc", "app"} /\ namespace \in {"", "9x"}
  /\ values = <<>> /\ kinds = <<>> /\ news = 0 /\ building = <<>> /\ handle = FALSE
  /\ call = [c \in Calls |-> New] /\ at = Idle /\ seen = <<>>

CallStep(c) ==
  \/ start(c) \/ Answer(c) \/ poll_frame(c) \/ Cancel(c)
  \/ Count(c) \/ Observe(c) \/ Leave(c) \/ Drop(c)
Next ==
  \/ AppRegister \/ AppUpdate \/ new \/ NewStep \/ record_protection \/ render \/ RenderFamily
  \/ \E c \in Calls : CallStep(c)
Spec == Init /\ [][Next]_vars

-----------------------------------------------------------------------------
TypeOK ==
  /\ DOMAIN values = DOMAIN kinds /\ handle \in BOOLEAN /\ news \in 0..MaxNews
  /\ \A c \in Calls : call[c].at \in {"new", "called", "body", "count", "observe", "leave", "drop", "done"}
  /\ DOMAIN seen \subseteq DOMAIN kinds

\* Every call is in the in-flight gauge exactly while it runs and, unless it was
\* an HTTP call that was dropped, in the request counter exactly once, whichever
\* of the answer, the body's end, an error and a drop came first and second.
CallsBalance ==
  handle =>
    \A m \in Paths \cup {"unknown"} :
      LET mine == {c \in Calls : call[c].at # "new" /\ method(call[c].path) = m} IN
      /\ or_default(Series("in_flight"), <<m>>, 0) =
           Cardinality({c \in mine : call[c].at \notin {"drop", "done"}})
      /\ \A code \in {call[c].code : c \in mine} \ {""} :
           or_default(Series("total"), <<m, code>>, 0) =
             Cardinality({c \in mine : call[c].code = code /\ call[c].at # "count"})

\* A scrape is not a snapshot, but because a call is counted before it is timed
\* and durations are rendered before totals, no scrape shows more timed calls
\* than counted ones; and a histogram's buckets never exceed its count.
ScrapeConsistent ==
  (at = <<>> /\ handle) =>
    \A l \in DOMAIN seen["duration"] :
      /\ seen["duration"][l].count <= or_default(seen["total"], l, 0)
      /\ \A b \in 1..Len(Bounds) : seen["duration"][l].buckets[b] <= seen["duration"][l].count
=============================================================================
