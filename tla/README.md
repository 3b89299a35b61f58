# rust-zero in TLA+

Specifications of rust-zero's stateful parts, model-checked with TLC and, where it matters most,
proved with TLAPS. Every definition is translated from the Rust source; `PROJECT.json` maps each
one to the lines it models, lists the hazards of the code with the properties that watch them, and
gives for every property a plausible bug that breaks it.

Read a module's header first: it says what its variables are in the code and where the code's
atomic steps begin and end. An action is what the code does between two points at which another
thread, task or process may run (a lock, an atomic operation, an await, a message). Operators with
a comment `Fault:` are deliberate bugs that are never part of a specification; each shows that a
property notices a mistake in the definition below it.

Conventions: an `Option` is a set with at most one element; a duration that the code only compares
with a deadline is a Boolean or a small clock that time may advance; a future may be dropped at any
of its awaits; a payload is a member of a small set. Variables marked `history` are not in the code.
They record what a property has to know of the past; some (`overlapped`, `overtaken`, `orphaned`,
`dirty`, `doubtful`, ...) mark the one situation in which the code does not keep the property beside
them, so that the property is checked in every other.

## The system and its modules

### Resilience and background work (`core/src`)

| Module | Models | State and steps |
|---|---|---|
| `CircuitBreaker` | the consecutive policy of `breaker.rs` | the locked enum is four variables; `AdmitClosed`, `AdmitProbe`, `Reject` are before_call, `Count` and `Record` the two halves of record_outcome |
| `LoadShedder` | `AdaptiveShedder` of `load.rs`, both modes | `Load`, `Admit`/`Shed`, `Reserve`/`Retry`, `Average` are the steps of try_acquire; `Release` and `RecordThroughput`/`RecordLatency` those of a dropped permit |
| `SingleFlight` | `singleflight.rs` | `Lead`, `Join`, `Land`, `Notify`; `CancelLeader` and `CancelWaiter` drop futures |
| `BatchExecutor` | batch and chunk executors of `executor.rs` | pushes, flushes, ticks and shutdown against one worker with a bounded command channel |
| `DelayExecutor` | delayed, periodic and less executors | triggers, the worker's timer, shutdown and abort |
| `MapReduce` | `mapreduce/src/mapreduce.rs` | bounded mappers that return in any order, panics, a dropped caller; compared with the sequential result |
| `ContinuousProfiler` | `continuous_profile.rs` | the monitor thread, its agent and the handle |
| `LocalLimits` | token and period limiters, rolling window, adaptive breaker | one clock; the readings that the code takes before a lock are steps of their own |
| `Balancing` | P2C balancer, balanced and fan-out pushers | the two reads of a pick, `mark_picked`, `complete`; the pushers' turn and queues |

### Running, stopping, configuring

| Module | Models | State and steps |
|---|---|---|
| `QueueRuntime` | producers, `worker_loop`, `RunningQueue` | a worker's biased select is `Changed`/`Unchanged` then `Receive`, `ReceiveClosed` or `Park` |
| `ServiceGroup` | the supervisor of `service.rs` | `Exit`, `Shutdown`, `Wait`, `Requested`, `Exited`, `Signal`, `Join`, `Drained`, `Timeout` |
| `DynamicConfig` | `config_center.rs` | `Assign`, `Install`, `Publish` of an update; `Observe` of a subscriber |
| `LogWriter` | rotation, compression, retention, sampling, non-blocking writer of `log.rs` | every file operation is a step that may fail or be the last before a crash |
| `Metrics` | registry and the HTTP server, HTTP client and RPC instruments | updates of one call interleave with another's and with a scrape |
| `RpcConfig`, `RestConfig` | settings, `validate`, and what is built from an accepted configuration; route groups and policies | a setting per step, then validate, then use |
| `Authentication` | JWT, bearer and signature checks of REST and RPC with key rotation | one credential presented to both adapters while clocks and keys move; cryptography is ideal |
| `RequestExtraction` | multipart forms and the validated request of REST | parts, chunks, limits, temporary files, a dropped request |

### Stores

| Module | Models | State and steps |
|---|---|---|
| `CachedSqlStore` | lookups and mutations of `stores_sql.rs` | each read of a cache, the generation or the database is a step; a mutation is `Commit` and `Complete` or `Abandon` |
| `CachedMongo` | `CachedMongoCollection` | the SQL store's lookups, by `INSTANCE`, under one-key mutations, insert_many and bulk writes |
| `MemoryCache`, `LruCache` | `cache.rs`; the abstract least-recently-used cache it implements | entries with last-access times and deadlines against a recency list; `ReadThroughCache` over single flights |
| `RedisStore` | commands of `stores_redis.rs` by data type | argument checks, server errors, timeouts and blocking commands that outlive their caller |
| `RedisLock` | `RedisLock` | commands in order on a connection, abandoned ones still run, the TTL may pass at any moment |
| `RedisCache` | the model and JSON caches | several processes fetch, fill and delete |
| `RedisSubscription` | `run_subscription` | reconnects, a bounded consumer, `Lagged`, close |
| `RedisPeriodLimiter` | the Redis limiter's monitor and rescue map | `Take`, `Probe`, `Postpone`, `Drop`, `ReadClock`, `RescueTake` |

### Discovery

| Module | Models | State and steps |
|---|---|---|
| `ServiceRegistry` | leases, events and subscriptions of `discov.rs` | `Publish`/`Release` change the map, `Send` broadcasts later, `Recv`, `Lag`, `Resync` |
| `EtcdDiscovery` | `etcd.rs` and the registration around `RpcServer::serve` | keep-alive, crash, lease expiry, watch, broken connection, relist, drain, revoke |
| `KubernetesDiscovery` | `kubernetes.rs` | init, apply, delete and restart of the slice watch; publication of endpoints |
| `DiscoveredChannel` | the RPC channel of `rpc/src/lib.rs` that follows a subscription | snapshots, subset, probes, slots, status, waiting calls |

### Servers

| Module | Models | State and steps |
|---|---|---|
| `RestPipeline` | the wraps of `standard_app` from the breaker inwards | two Actix workers; a response body carries permits until it is read or dropped |
| `RpcStack` | client and server stacks of `rpc/src/stack.rs` | deadline, breaker, shedder, metrics, status in trailers, dropped calls |
| `Gateway` | `gateway/src/lib.rs` | configuration and route table, the scan over health flags, limits and answers |
| `McpServer` | sessions of `mcp/src/lib.rs` | publish, replay, streams, requests, cancel, terminate, expiry, server shutdown |

How they meet: `CachedSqlStore` composes with `SingleFlight` by `INSTANCE` (the flight maps of
primary and secondary keys are one map over disjoint keys, and the actions of the flight are
conjoined with the steps of the lookup), and `MemoryCache` has the flight's protocol in its `take`.
`RpcStack` and `RestPipeline` hold the permits of the breaker and the shedder for the life of a
response; there these two are what a permit does to a counter, and their own modules say what the
counters do. `DiscoveredChannel` follows any source of snapshots; `ServiceRegistry`,
`EtcdDiscovery` and `KubernetesDiscovery` are such sources, each with the snapshots it may show.
`EtcdDiscovery` also contains the part of the RPC server that registers, serves and drains.

## Runs

The `MC` modules gather components that share no state. A behaviour is about one component, chosen
initially (`focus`); the others rest. In the two runs without liveness (`Servers`, `Components`)
components take turns in the slots `x1`, `x2`, ...; in the runs with liveness each has its variables.
Symmetry is used in runs without liveness only, on sets of model values.

Runs that pass. Each also checks the type invariants of its components (`TypesOK`):

| Run | Components | Shows |
|---|---|---|
| `Resilience` | breaker, single flight, executors, profiler, map-reduce | a breaker that rejects in half-open waits for an outcome and leaves that state; its counts are explained; flights have one leader; background work is done exactly once and in order; whoever waits is answered |
| `Lifecycle` | queue, service group, configuration, Redis subscription, Redis limiter | no message goes astray; ends are reported as they were; updates in turn converge; quotas survive an outage; a paused or stopped worker takes at most what it had begun to take; calls that stop a component return |
| `Servers` | shedder, REST, RPC, gateway, metrics, MCP | capacity and exact in-flight count; permits, rates and metrics balance whatever ends a request; breakers count their own failures; longest prefix and even spread; ends of sessions are told; nothing is refused or skipped without cause |
| `Stores` | SQL store, Mongo collection | no lookup restores what a completed mutation replaced, in either cache |
| `Discovery` | etcd, Kubernetes, RPC channel | snapshots were true at one moment; status and clean stops are true; discovery settles |
| `Components` | registry, configurations, authentication, extraction, limiters, balancers, log, Redis lock, cache and store, in-memory cache | leases are counted; accepted configurations are usable; adapters agree; limits hold; records are kept or counted; staleness is explained; a lock that says held is; a refused command has no effect; the cache implements an LRU cache |

Bounds, and why they suffice. Two actors per race and a third where one has to compete with a
finished or waiting one; one more element than a limit holds, so that every limit is reached and
exceeded. Breaker: 5 calls with both thresholds 2, so two failures open, two probes run and an
earlier call is still out. Shedder: 3 threads for 2 permits; windows and buckets of length 2 fill,
rotate and expire. Queue: 2 workers on one mutex, 3 messages through 2 slots. Stores: records move
between 2 primary and 2 secondary keys under 2 lookups. Registry: 2 publishers that share one of 2
uris, a buffer of 2 events. etcd: 2 servers that compete for a key and 2 broken connections, so that
a relist meets a second break. Channel: 3 snapshots with weights and a malformed endpoint, one probe
after or during an install. REST: 2 routes, 2 workers, limit 1 with a reserve of 1. MCP: a replay
buffer and a channel of 2 for 2 posts and 2 keys. Log: files of 2 bytes, 2 backups, 2 days kept,
one failed operation and one crash. Counters that the code does not bound are capped in guards by
constants with a name (`MaxBreaks`, `MaxClock`, `MaxSettings`, ...).

Deadlock is not checked in these runs: the components end (calls that run once, a group that has
stopped), or a bound is reached. That nobody waits for ever is stated as liveness instead.

Runs whose property fails; each states a sentence of the repository, quoted under `findings`:

| Run | What the code does |
|---|---|
| `ServiceRegistryReorder` | events are sent after the unlock, overtake each other, and a subscription misses a live endpoint |
| `RedisPeriodLimiterDropped` | a dropped probe stops recovery for ever |
| `DynamicConfigConcurrent` | concurrent updates leave snapshot and subscribers apart |
| `RestIsolation` | the 503 of the process-wide concurrency limit counts as a failure of whichever route got it |
| `RestRate` | each Actix worker has its own token bucket |
| `ChannelFailedProbe` | a new discovery snapshot makes an endpoint available again whose last probe failed |

### Fairness

Weak fairness only, and only of steps that the runtime takes by itself: a task that can run is
scheduled, a protected operation or a handler returns or is dropped, a clock advances, a lease that
nobody renews expires, a server answers a relist, a task that ended is joined while someone awaits
it. In the limiter callers keep calling; that Redis stays up is a premise of the property. Nothing
is assumed of users of the API: no producer has to go away, nobody has to resume a queue, no client
has to read a body.

A condition `WF_moving(A \/ B)` in an `MC` module names one step of each of several components.
Since one component moves in a behaviour, it asks of that component what a condition on its own
step would; it only keeps the number of conditions that TLC has to handle small.

## Proofs

All are inductive-invariant arguments, for every value of the constants that the `ASSUME` of the
module, or of the theorem, admits. The proofs are in modules of their own, or at the end of the
component's module where that is short enough to be read with it.

| Theorem | States |
|---|---|
| `CircuitBreakerProofs!TypeCorrect`, `NeverStuckHalfOpen`, `CountsAreExplained` | `TypeOK`, `RejectingMeansWaiting`, `CountsExplained` of the breaker |
| `LoadShedderProofs!InFlightIsExact`, `CapacityHolds` | `InFlightExact`, `PermitsWithinCapacity` |
| `CachedSqlStoreProofs!RecordsStayCoherent`, `MappingsStayCoherent` | `CacheCoherent`, `IndexCoherent` of the SQL store |
| `SingleFlight!FlightsAreLed` | `FlightsLed` |
| `DynamicConfig!ConfigConverges` | `UpdatesConverge` |
| `QueueRuntimeProofs!QueueTyped`, `MessagesAreKept`, `WorkersStopPromptly` | `TypeOK`, `MessagesKept` and the action property `StopsPromptly` |
| `ServiceRegistry!RegistryIsExact` | `RegistryExact` |
| `RedisProofs!RescueIsBounded`, `RescueIsKept` | `TypeOK` and `RescueKept` of the Redis limiter |
| `RedisProofs!HolderOwnsTheKey` | `HeldMeansOwned` of the lock |

Assumptions on constants. Calls, threads, workers, publishers and identities are finite sets (so many
exist at any time); thresholds, capacities and quotas are what the constructors assert: a breaker
with at least one failure and one probe, a shedder with at least one permit, a queue with a worker
and a capacity, an event buffer of at least one, a rescue map with room for at least one identity.
The lock assumes that the value for an absent key is no handle. `SingleFlight` and `DynamicConfig`
assume nothing. The bounds that keep TLC finite (`MaxMessages`, `MaxWindow`, `MaxCalls`, ...) are
arbitrary numbers in the proofs.

**Breaker.** `RejectingMeansWaiting` is not inductive: a completed call could be the last one
outstanding. The invariant adds that in half-open the attempts that were taken are covered by the
successes recorded plus the calls outstanding (`AttemptsOwed`); because successes stay below the
limit, attempts at the limit leave at least one call out. `CountsExplained` has two halves.
`TripsAreCounted` needs that consecutive failures, with those counted but not yet recorded, are
within the failure counter. `ProbesPaidFor` needs that running probes and cancelled calls that have
yet to give an attempt back are together within the attempts and the cancellations counted
(`ProbesOwed`): the give-back of one call may pay for the probe of another.

**Shedder.** A thread past its decision saw `active < MaxConcurrency`; the compare-and-swap succeeds
only if `in_flight` still equals `active`. How the limit adapts is irrelevant.

**SQL store.** The strengthening is about loads in flight: rows read by a query whose generation is
still the current one agree with the database except for keys and secondary keys that a mutation
changed and has not invalidated. A mutation makes its own keys exempt when it commits; the
invalidation that ends the exemption also advances the generation, which disqualifies every load
that began before it.

**Single flight.** The invariant follows a waiter through the code: it is in the map, under its key,
while the flight has a leader, and then with exactly one caller that took it out; the sets that
different callers took are disjoint. A new flight of the key starts with no waiters, so it cannot
take over those of an old one.

**Dynamic configuration.** While no two updates have overlapped, the only update in progress carries
the newest generation until it has installed and then published it (`InTurn`); a subscriber that has
nothing unseen holds the channel's value (`CaughtUp`). That a generation names one value needs no
such premise, only that generations are handed out in order.

**Queue.** Every accepted message is somewhere (`Placed`) and nowhere else (`Once`), which makes the
counts add up (`Counted`). For the end of the queue, whoever has left a queue that was not told to
stop found it closed and empty, whoever was joined had left by itself, and a lost message ended its
worker (`Ends`), so an `Ok` of `wait` leaves nothing behind. For `StopsPromptly`, a worker that took a
message while the queue was not running looks at the state before it takes another (`Prompt`).

**Service registry.** `LeasesCounted` is almost inductive: leases are one at a time, and the entry of
an endpoint counts its holders. What subscribers know is explained by events. An event that is still
to be sent excuses a subscriber; if none is, the last event of an endpoint in an inbox tells whether
the endpoint is published, and with no event in the inbox the view does (`Told`). When the only event
of an endpoint is sent it must say what the map says, which rests on `Announced`: a published endpoint
whose withdrawal is still to be sent also has an announcement to be sent. Two such events at once are
the exception (`overtaken`) that `ServiceRegistryReorder` shows to be real. A full buffer drops its
oldest event, and the flag `lagged` set with it invalidates the view until it is copied again.

**Redis limiter.** An entry's count is the number of permits granted in its window, and permits that
no entry counts any more belong to a window that some entry of the map has left behind (`Accounted`).
So a call never restarts a count of its own window: a lost entry would need a later window in the
map, and that is `overtaken`. Making room keeps the entries of the current window; the map is then
non-empty whenever it still refuses somebody, because the capacity is not zero.

**Redis lock.** The invariant is about each handle's connection: only its last command may still have
a caller, a reply on its way means that nothing is left to run, and a handle that is in no doubt
abandoned nothing. Then what runs for a handle in no doubt is what it waits for, and a granted
acquire owns the key from the moment the server ran it.

Only model-checked:
- liveness (`EveryWaitEnds`, `CallsReturn`, `DiscoverySettles`), which this prover does not reach;
- `ImplementsLru`, the refinement of `LruCache` by `MemoryCache`: both filter sequences with
  `SelectSeq`, and what that recursive operator returns needs induction over data;
- what is computed over whole sequences: the windows and buckets of `LocalLimits`, the route order of
  `Gateway`, the result of `MapReduce`;
- the safety of the request paths, the discovery protocols, the service group, the log writer and the
  remaining Redis components, whose properties join many small components, or are about a few fixed
  steps of one request that TLC already enumerates.

## Behaviour that a reader may not expect

The models show the following; comments of the properties concerned say how they allow for it.

Calls and background work
- A call admitted before the circuit opened and cancelled in half-open gives back an attempt that it
  never took (`ProbesPaidFor`).
- `PeriodLimiter` computes its window before it takes the lock: callers that enter in another order
  restart an older window, and the quota is exceeded. A period below a millisecond divides by zero.
- The P2C balancer compares health before the forced pick, so an unhealthy node is never picked
  against a healthy one and gets no chance to recover.
- `map_reduce` groups in the order of completion; a reduce that is not commutative is not
  deterministic. A profiler thread that fails is silent until `shutdown` reports it.
- `ReadThroughCache` does not notice a remove between its fetch and its insert.

Stopping and configuring
- `wait` on a paused queue never returns; `shutdown` returns at the first panicked worker while
  others run; the inflight gauge keeps messages whose handler panicked or was aborted.
- A service that stopped on request may be reported as exited before shutdown (the select of `wait`
  is not biased).
- A failed rotation leaves `bytes_written` as it was, so every following write rotates again and
  pushes backups out; a daily log whose reopen fails stays closed until the next day; a clock set
  back across midnight overwrites a compressed file; a crash between the end of the compression and
  the removal leaves records twice; queued records are lost at exit.
- A metrics constructor that is refused half-way leaves its first families registered; a scrape is
  no snapshot; dropped HTTP calls are not counted.
- `validate` accepts a concurrency limit above Tokio's maximum, TLS text that is no PEM, and a
  namespace of white space, each of which fails later.

Stores
- `find_by_index` reads mapping and record apart and may return a record that has just moved to
  another secondary key, although neither cache is stale.
- The Redis caches have no generation: a fetch that overlaps a write restores the old value until
  its TTL. `insert_many` that fails half-way, and `bulk_insert`, skip invalidation in Mongo.
- A second `acquire` by the holder returns false and clears its flag; a timed-out acquire leaves the
  key until its TTL; a timed-out release keeps the flag.
- An abandoned blocking pop later takes a value that nobody receives. `Lagged` of a subscription is
  reported with the next message or disconnect.

Discovery
- A lease lost while serving is not registered again; a draining instance stays registered; a drain
  that times out returns before the revoke; an invalid UTF-8 value ends an etcd subscription;
  `watch_config` does not reconnect.
- The status of a balanced channel is stale while there are no calls, because only calls make room
  for its updates.

Servers
- The RPC timeout layer is outside the stack, so a method that always times out never trips its
  server's breaker.
- gRPC scopes of the gateway are mounted before HTTP ones, so a shorter gRPC prefix hides a longer
  HTTP prefix; a scan over flags that change may find no healthy upstream although there always was
  one; equal prefixes that are not neighbours pass `validate`. Transcoding errors of the caller
  answer 500, and `insert_json_path` may panic.
- MCP: overlapping publishes may reorder or skip ids; a stream that subscribes after the termination
  does not end; a full channel crowds out `Terminated`; a dropped POST keeps its request entry, and
  its session never idles out.
- The limits of multipart forms do not bound the number of empty parts.

## Not modelled

Conversions of one value without state: JSON to protobuf transcoding, header policies, compression,
ciphers, response building, tracing headers, formatting of logs and metrics, parsing of
configuration files. Their control is a straight line, and what they compute is string data.

Structures whose operations are each one step under one lock: pub/sub topics, health registry,
profiling table, `TtlCache` by itself. Consistent hash and Bloom filter promise properties of their
hash functions. `retry` is one loop without shared state.

Foreign code: SQLx, the Mongo driver, tonic's channel builder, exporters, the pass-through methods
of the stores, Redis cluster routing and scan cursors. The Redis token limiter shares the monitor
modelled in `RedisPeriodLimiter`; its script is not modelled. SSE encoding and the development
server are I/O shells. Code generation (CLI), demos and benchmarks are not part of the running
system.

The memory model is sequentially consistent: the code's atomics are single words whose orderings the
properties do not depend on. Poisoned locks are left out, since no critical section modelled here
calls user code.
