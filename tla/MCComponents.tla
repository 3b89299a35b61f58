----------------------------- MODULE MCComponents -----------------------------
(***************************************************************************)
(* The in-process service registry, configuration, authentication, request  *)
(* extraction, the in-process limits, balancing, the log, and the Redis     *)
(* and in-memory stores. They share no state; a behaviour is about one of   *)
(* them, chosen initially, and x1, x2, ... stand for its variables.         *)
(***************************************************************************)
EXTENDS ServiceRegistry, TLC

CONSTANTS
  Requests, Nodes

VARIABLES
  focus,  \* the component this behaviour is about
  \* LogWriter
  policy, compress, non_blocking, today, files, file, active_day, bytes_written, log_pc, idx,
  src, todo, rec, log_queue, log_seen, calls, dropped, written, fails, crashes, torn, backwards,
  \* MemoryCache
  entries, recency, memory_clock, memory_answer, source, memory_written, flight, taker,
  overlapped,
  \* the state of any other component in focus; those it does not need stay 0
  x1, x2, x3, x4, x5, x6, x7, x8, x9, x10, x11, x12, x13

\* Both publishers publish u1; u2 belongs to p2, which publishes and withdraws it in order.
Shared == {<<"p1", "u1">>, <<"p2", "u1">>, <<"p2", "u2">>}
ComponentSymmetry == Permutations(Requests) \cup Permutations(Nodes)

RpcConf == INSTANCE RpcConfig WITH
  MaxSettings <- 3, role <- x1, from <- x2, server <- x3, registration <- x4, client <- x5,
  settings <- x6, asked <- x7, stage <- x8
RestConf == INSTANCE RestConfig WITH
  MaxSettings <- 2, MaxRouting <- 4, part <- x1, config <- x2, cors <- x3, tls <- x4,
  groups <- x5, taken <- x6, settings <- x7, registered <- x8, policies <- x9, stage <- x10
Auth == INSTANCE Authentication WITH
  Leeway <- 1, MaxSkew <- 2, Drift <- 1, Life <- 2, MaxClock <- 6, kind <- x1, clock <- x2,
  stage <- x3, keys <- x4, issuer <- x5, credential <- x6, genuine <- x7, http <- x8, grpc <- x9
Extract == INSTANCE RequestExtraction WITH
  MaxField <- 1, MaxFile <- 2, MaxTotal <- 3, Chunks <- {1, 2}, MaxParts <- 2, request <- x1,
  disk <- x2, sent <- x3
Limits == INSTANCE LocalLimits WITH
  Callers <- Requests, Rate <- 1, Burst <- 2, Period <- 2, Quota <- 1, BucketCount <- 3,
  Width <- 2, Minimum <- 1, Sensitivity <- 3, ProbeInterval <- 3, MaxClock <- 7, MaxEvents <- 3,
  kind <- x1, clock <- x2, caller <- x3, bucket <- x4, window <- x5, current_started <- x6,
  buckets <- x7, sequence <- x8, events <- x9, seen <- x10, promise <- x11, streak <- x12,
  late <- x13
Balance == INSTANCE Balancing WITH
  Queues <- 2, QueueSize <- 1, MaxRounds <- 4, kind <- x1, node <- x2, request <- x3,
  steady <- x4, queue <- x5, closed <- x6, next <- x7, taken <- x8, rounds <- x9
Log == INSTANCE LogWriter WITH
  Capacity <- 1, MaxBytes <- 2, MaxBackups <- 2, RetentionDays <- 2, First <- 2,
  Thereafter <- 2, MaxRecords <- 7, MaxDaily <- 3, MaxDays <- 2, MaxFails <- 1, MaxCrashes <- 1,
  pc <- log_pc, queue <- log_queue, seen <- log_seen
SharedCache == INSTANCE RedisCache WITH
  Keys <- Nodes, Rows <- {"v1", "v2"}, Processes <- Requests, Writers <- {"w1"},
  Modes <- {"model", "model without not_found", "json"}, MaxWrites <- 2, mode <- x1, db <- x2,
  cache <- x3, fetch <- x4, erase <- x5, writes <- x6, dirty <- x7, raced <- x8
Redis == INSTANCE RedisStore WITH
  Keys <- {"k1", "k2"}, Members <- {1, 2}, Groups <- {"g1"}, Consumers <- {"c1", "c2"},
  Families <- {"strings", "bitmaps", "hashes", "sets", "sorted sets", "lists", "streams"},
  MaxNumber <- 1, MaxBlocked <- 1, family <- x1, db <- x2, reply <- x3, blocked <- x4,
  ledger <- x5
Memory == INSTANCE MemoryCache WITH
  Keys <- {"k1", "k2", "k3"}, Capacity <- 2, Takers <- {"t1", "t2"}, Ttls <- {1},
  Mutable <- {"k1"}, MaxVersion <- 1, MaxClock <- 1, clock <- memory_clock,
  answer <- memory_answer, written <- memory_written

logVars == <<policy, compress, non_blocking, today, files, file, active_day, bytes_written,
  log_pc, idx, src, todo, rec, log_queue, log_seen, calls, dropped, written, fails, crashes,
  torn, backwards>>
memoryVars == <<entries, recency, memory_clock, memory_answer, source, memory_written, flight,
  taker, overlapped>>
\* the slots from the i-th on, of which the component in focus has no need
rest11 == <<x11, x12, x13>>
unused11 == x11 = 0 /\ x12 = 0 /\ x13 = 0
rest10 == <<x10, rest11>>
unused10 == x10 = 0 /\ unused11
rest9 == <<x9, rest10>>
unused9 == x9 = 0 /\ unused10
rest6 == <<x6, x7, x8, rest9>>
unused6 == x6 = 0 /\ x7 = 0 /\ x8 = 0 /\ unused9
rest4 == <<x4, x5, rest6>>
unused4 == x4 = 0 /\ x5 = 0 /\ unused6
rest1 == <<x1, x2, x3, rest4>>
unused1 == x1 = 0 /\ x2 = 0 /\ x3 = 0 /\ unused4
allVars == <<focus, vars, logVars, memoryVars, rest1>>

MCInit ==
  /\ focus \in {"registry", "log", "memory", "rpc config", "rest config", "auth", "extraction",
     "limits", "balancing", "shared", "redis"}
  /\ Init /\ (focus = "registry" \/ service = [s \in Subscribers |-> "s1"])
  /\ Log!Init /\ (focus = "log" \/ (policy = "size" /\ ~compress /\ ~non_blocking))
  /\ Memory!Init
  /\ \/ focus = "registry" /\ unused1
     \/ focus = "log" /\ unused1
     \/ focus = "memory" /\ unused1
     \/ focus = "rpc config" /\ RpcConf!Init /\ unused9
     \/ focus = "rest config" /\ RestConf!Init /\ unused11
     \/ focus = "auth" /\ Auth!Init /\ unused10
     \/ focus = "extraction" /\ Extract!Init /\ unused4
     \/ focus = "limits" /\ Limits!Init
     \/ focus = "balancing" /\ Balance!Init /\ unused10
     \/ focus = "shared" /\ SharedCache!Init /\ unused9
     \/ focus = "redis" /\ Redis!Init /\ unused6
MCNext ==
  /\ UNCHANGED focus
  /\ \/ focus = "registry" /\ Next /\ UNCHANGED <<logVars, memoryVars, rest1>>
     \/ focus = "log" /\ Log!Next /\ UNCHANGED <<vars, memoryVars, rest1>>
     \/ focus = "memory" /\ Memory!Next /\ UNCHANGED <<vars, logVars, rest1>>
     \/ focus = "rpc config" /\ RpcConf!Next /\ UNCHANGED <<vars, logVars, memoryVars, rest9>>
     \/ focus = "rest config" /\ RestConf!Next /\ UNCHANGED <<vars, logVars, memoryVars, rest11>>
     \/ focus = "auth" /\ Auth!Next /\ UNCHANGED <<vars, logVars, memoryVars, rest10>>
     \/ focus = "extraction" /\ Extract!Next /\ UNCHANGED <<vars, logVars, memoryVars, rest4>>
     \/ focus = "limits" /\ Limits!Next /\ UNCHANGED <<vars, logVars, memoryVars>>
     \/ focus = "balancing" /\ Balance!Next /\ UNCHANGED <<vars, logVars, memoryVars, rest10>>
     \/ focus = "shared" /\ SharedCache!Next /\ UNCHANGED <<vars, logVars, memoryVars, rest9>>
     \/ focus = "redis" /\ Redis!Next /\ UNCHANGED <<vars, logVars, memoryVars, rest6>>
MCSpec == MCInit /\ [][MCNext]_allVars
-----------------------------------------------------------------------------
\* The component in focus keeps its types.
TypesOK ==
  CASE focus = "registry"    -> TypeOK
    [] focus = "rpc config"  -> RpcConf!TypeOK
    [] focus = "rest config" -> RestConf!TypeOK
    [] focus = "auth"        -> Auth!TypeOK
    [] focus = "extraction"  -> Extract!TypeOK
    [] focus = "limits"      -> Limits!TypeOK
    [] focus = "balancing"   -> Balance!TypeOK
    [] focus = "log"         -> Log!TypeOK
    [] focus = "shared"      -> SharedCache!TypeOK
    [] focus = "redis"       -> Redis!TypeOK
    [] focus = "memory"      -> Memory!TypeOK


\* HTTP and gRPC accept the same credentials, a rotation of the secret invalidates none that is
\* still in its life, and the claims a handler sees are those of the key that verified them.
AuthenticationAgrees ==
  focus = "auth" => Auth!AdaptersAgree /\ Auth!RotationSeamless /\ Auth!ProjectionAgrees

\* The temporary files of a multipart form belong to a request that is alive, an accepted form is
\* complete and within its limits, and a refused request is told its first error.
ExtractionTold ==
  focus = "extraction" => Extract!FilesOwned /\ Extract!FormComplete /\ Extract!FirstErrorTold

\* The in-process limiters keep their rate and quota, the rolling window counts its own period,
\* the adaptive breaker lets a probe through; the balancer's in-flight counts are exact and avoid
\* an unhealthy node while there is a healthy one; a push that reports success was queued.
LimitsKept ==
  /\ focus = "limits" => /\ Limits!RateKept /\ Limits!QuotaInOrder
                         /\ Limits!WindowHonest /\ Limits!ProbesBounded
  /\ focus = "balancing" => /\ Balance!InflightExact /\ Balance!UnhealthyAvoided
                            /\ Balance!PushesTold

\* Rotation, compression and retention lose no record that should be kept, the active file stays
\* within its limit, and every record is written, queued, sampled out or counted as dropped.
LogKept ==
  focus = "log" => /\ Log!LogKept /\ Log!ActiveWithinLimit
                   /\ Log!DaysKept /\ Log!RecordsAccounted

\* A cache outlives what it caches only for the reasons the code leaves: in Redis the overlap of
\* a fetch with a write, a failed deletion or a pending one, in memory a remove between the
\* fetch and the insert of a take.
StaleIsExplained ==
  /\ focus = "shared" => SharedCache!StaleExplained
  /\ focus = "memory" => Memory!StaleOnlyIfOverlapped

\* A list value that was pushed is in one place, and a stream entry that a group read stays
\* pending until it is acknowledged.
RedisKept ==
  focus = "redis" => Redis!ListValuesConserved /\ Redis!UnackedStaysPending


\* MemoryCache is a least-recently-used cache of its capacity with expiring entries.
ImplementsLru == Memory!ImplementsLru
=============================================================================
