------------------------- MODULE DiscoveredChannel -------------------------
(***************************************************************************)
(* RpcClient's discovered channels (rpc/src/lib.rs): the task behind       *)
(* connect_discovered_with_status and its consistent-hash variant, the     *)
(* callers that wait for an endpoint, and the task that projects the       *)
(* channel's status into a HealthRegistry.                                 *)
(*                                                                         *)
(* A discovery backend hands over complete snapshots: a weight for every   *)
(* URI, 0 for one that is absent.  Scores of the subset choice are a       *)
(* constant ranking.  A balanced channel takes one change at a time, a     *)
(* consistent-hash ring is replaced at once.                               *)
(***************************************************************************)
EXTENDS Naturals, FiniteSets

CONSTANTS
  Uris,
  Malformed,    \* URIs Endpoint::from_shared refuses
  Snapshots,    \* the snapshots a backend may publish
  Rank,         \* discovery_subset_score
  SubsetSize,   \* discovery_subset_size
  Callers,      \* calls made through a consistent-hash channel
  MaxPublishes, \* bound
  MaxProbes     \* bound: health ticks, 0 without discovery_health_interval

VARIABLES
  hashed,      \* which of the two channels this is
  snapshot,    \* what the subscription's receiver shows
  unseen,      \* changed() would return
  source,      \* "open", or "closed" after the backend's stream ended
  dropped,     \* every clone of the channel was dropped
  pc,          \* the watcher task
  configured, discovered, rejected, available,
  installed,   \* the keys the channel or the ring holds
  status,      \* the watch channel of DiscoveryStatus
  health,      \* the entry project_to_health keeps
  projected,   \* the projecting task has seen the current status
  caller,      \* per caller: where select is
  woken,       \* callers whose Notified has fired
  publishes, probes,
  failed       \* history: URIs whose latest probe failed

source_vars == <<snapshot, unseen, source, publishes>>
task_vars == <<configured, discovered, rejected, available>>
caller_vars == <<caller, woken>>
health_vars == <<health, projected>>

vars == <<hashed, source_vars, dropped, pc, task_vars, installed, status, health_vars,
          caller_vars, probes, failed>>

Listed(s) == {u \in Uris : s[u] > 0}
Valid(s) == Listed(s) \ Malformed

select_discovery_subset(uris) ==
  {u \in uris : Cardinality({v \in uris : Rank[v] > Rank[u]}) < SubsetSize}

\* configure_discovered: the selected URIs with their weights.
configure(s) == [u \in Uris |-> IF u \in select_discovery_subset(Valid(s)) THEN s[u] ELSE 0]

Rejected(s) == Cardinality(Listed(s)) - Cardinality(Valid(s))

\* Fault: an endpoint keeps its slots while it is listed, healthy or not.
all_keys(c, a) == UNION {{<<u, slot>> : slot \in 0..(c[u] - 1)} : u \in Listed(c)}

weighted_keys(c, a) == UNION {{<<u, slot>> : slot \in 0..(c[u] - 1)} : u \in a \intersect Listed(c)}

discovery_status(d, selected, avail, reject) ==
  [readiness |-> IF d = 0 THEN "Empty"
                 ELSE IF selected > 0 /\ avail = selected /\ reject = 0 THEN "Ready" ELSE "Degraded",
   discovered |-> d, selected |-> selected, available |-> avail, rejected |-> reject]

Status == discovery_status(discovered, Cardinality(Listed(configured)), Cardinality(available), rejected)

TypeOK ==
  /\ hashed \in BOOLEAN /\ unseen \in BOOLEAN /\ dropped \in BOOLEAN /\ projected \in BOOLEAN
  /\ health \in BOOLEAN
  /\ snapshot \in Snapshots
  /\ source \in {"open", "closed"}
  /\ pc \in {"select", "probing", "apply", "report", "ended"}
  /\ available \subseteq Uris /\ failed \subseteq Uris
  /\ installed \subseteq Uris \X Nat
  /\ status.readiness \in {"Empty", "Ready", "Degraded"}
  /\ caller \in [Callers -> {"idle", "enabled", "waiting", "sent"}]
  /\ woken \subseteq Callers

\* The snapshot at connect time is installed before the method returns.
Init ==
  /\ hashed \in BOOLEAN
  /\ snapshot \in Snapshots
  /\ unseen = FALSE /\ source = "open" /\ dropped = FALSE
  /\ pc = "select"
  /\ configured = configure(snapshot)
  /\ discovered = Cardinality(Listed(snapshot))
  /\ rejected = Rejected(snapshot)
  /\ available = Listed(configure(snapshot))
  /\ installed = weighted_keys(configure(snapshot), available)
  /\ status = Status
  /\ health = (status.readiness = "Ready") /\ projected = TRUE
  /\ caller = [c \in Callers |-> "idle"] /\ woken = {}
  /\ publishes = 0 /\ probes = 0
  /\ failed = {}

\* The backend publishes another snapshot, or its stream ends.
Publish(s) ==
  /\ source = "open" /\ publishes < MaxPublishes
  /\ s # snapshot
  /\ snapshot' = s /\ unseen' = TRUE /\ publishes' = publishes + 1
  /\ UNCHANGED <<hashed, source, dropped, pc, task_vars, installed, status, health_vars,
                 caller_vars, probes, failed>>

CloseSource ==
  /\ source = "open"
  /\ source' = "closed"
  /\ UNCHANGED <<hashed, snapshot, unseen, publishes, dropped, pc, task_vars, installed, status,
                 health_vars, caller_vars, probes, failed>>

DropChannel ==
  /\ ~dropped
  /\ \A c \in Callers : caller[c] \in {"idle", "sent"}
  /\ dropped' = TRUE
  /\ UNCHANGED <<hashed, source_vars, pc, task_vars, installed, status, health_vars, caller_vars,
                 probes, failed>>

\* changes.closed(), or a send on the closed channel: the task returns.
Leave ==
  /\ dropped
  /\ pc = "select" \/ (pc = "apply" /\ ~hashed /\ installed # weighted_keys(configured, available))
  /\ pc' = "ended" /\ projected' = FALSE
  /\ UNCHANGED <<hashed, source_vars, dropped, task_vars, installed, status, health, caller_vars,
                 probes, failed>>

\* subscription.changed() with a snapshot: every configured endpoint is
\* available again.
Changed ==
  /\ pc = "select" /\ unseen
  /\ configured' = configure(snapshot)
  /\ discovered' = Cardinality(Listed(snapshot))
  /\ rejected' = Rejected(snapshot)
  /\ available' = Listed(configured')
  /\ unseen' = FALSE
  /\ pc' = "apply"
  /\ UNCHANGED <<hashed, snapshot, source, publishes, dropped, installed, status, health_vars,
                 caller_vars, probes, failed>>

\* subscription.changed() failed: a last, degraded status.
ChangedErr ==
  /\ pc = "select" /\ source = "closed" /\ ~unseen
  /\ status' = [discovery_status(discovered, Cardinality(Listed(configured)), 0, rejected)
                  EXCEPT !.readiness = "Degraded"]
  /\ pc' = "ended" /\ projected' = FALSE
  /\ UNCHANGED <<hashed, source_vars, dropped, task_vars, installed, health, caller_vars, probes, failed>>

\* A health tick: probes run while the task waits for all of them.
HealthTick ==
  /\ pc = "select" /\ probes < MaxProbes
  /\ probes' = probes + 1
  /\ pc' = "probing"
  /\ UNCHANGED <<hashed, source_vars, dropped, task_vars, installed, status, health_vars,
                 caller_vars, failed>>

probe_discovered(healthy) ==
  /\ pc = "probing"
  /\ available' = healthy
  /\ failed' = Listed(configured) \ healthy
  /\ pc' = "apply"
  /\ UNCHANGED <<hashed, source_vars, dropped, configured, discovered, rejected, installed, status,
                 health_vars, caller_vars, probes>>

Desired == weighted_keys(configured, available)

\* A balanced channel: removals, then insertions, one send at a time.
Send ==
  /\ ~hashed /\ pc = "apply" /\ ~dropped
  /\ \/ \E key \in installed \ Desired : installed' = installed \ {key}
     \/ /\ installed \subseteq Desired
        /\ \E key \in Desired \ installed : installed' = installed \union {key}
  /\ UNCHANGED <<hashed, source_vars, dropped, pc, task_vars, status, health_vars, caller_vars, probes, failed>>

Sent ==
  /\ ~hashed /\ pc = "apply" /\ installed = Desired
  /\ pc' = "report"
  /\ UNCHANGED <<hashed, source_vars, dropped, task_vars, installed, status, health_vars, caller_vars, probes, failed>>

\* Fault: the ring is replaced and nobody is told.
ReplaceSilently ==
  /\ hashed /\ pc = "apply"
  /\ installed' = Desired
  /\ pc' = "report"
  /\ UNCHANGED <<hashed, source_vars, dropped, task_vars, status, health_vars, caller_vars, probes, failed>>

\* RpcConsistentHashChannel::replace_state: the new ring, then notify_waiters.
replace_state ==
  /\ hashed /\ pc = "apply"
  /\ installed' = Desired
  /\ woken' = {c \in Callers : caller[c] \in {"enabled", "waiting"}}
  /\ pc' = "report"
  /\ UNCHANGED <<hashed, source_vars, dropped, task_vars, status, health_vars, caller, probes, failed>>

Report ==
  /\ pc = "report"
  /\ status' = Status
  /\ projected' = FALSE
  /\ pc' = "select"
  /\ UNCHANGED <<hashed, source_vars, dropped, task_vars, installed, health, caller_vars, probes, failed>>

\* project_to_health: follow the status; false once its sender is gone.
Project ==
  /\ ~projected
  /\ health' = (pc # "ended" /\ status.readiness = "Ready")
  /\ projected' = TRUE
  /\ UNCHANGED <<hashed, source_vars, dropped, pc, task_vars, installed, status, caller_vars, probes, failed>>

\* RpcConsistentHashChannel::select: enable the notification, look, wait.
Enable(c) ==
  /\ hashed /\ ~dropped
  /\ \/ caller[c] = "idle"
     \/ caller[c] = "waiting" /\ c \in woken
  /\ caller' = [caller EXCEPT ![c] = "enabled"]
  /\ woken' = woken \ {c}
  /\ UNCHANGED <<hashed, source_vars, dropped, pc, task_vars, installed, status, health_vars, probes, failed>>

Look(c) ==
  /\ caller[c] = "enabled"
  /\ caller' = [caller EXCEPT ![c] = IF installed = {} THEN "waiting" ELSE "sent"]
  /\ woken' = IF installed = {} THEN woken ELSE woken \ {c}
  /\ UNCHANGED <<hashed, source_vars, dropped, pc, task_vars, installed, status, health_vars, probes, failed>>

Next ==
  \/ \E s \in Snapshots : Publish(s)
  \/ CloseSource \/ DropChannel \/ Leave \/ Changed \/ ChangedErr \/ HealthTick
  \/ \E healthy \in SUBSET Listed(configured) : probe_discovered(healthy)
  \/ Send \/ Sent \/ replace_state \/ Report \/ Project
  \/ \E c \in Callers : Enable(c) \/ Look(c)

\* The watcher and the projector are spawned tasks; a probe is bounded by its
\* timeout; a send waits only for room, which calls on the channel make.
Fairness ==
  /\ WF_vars(Leave \/ Changed \/ ChangedErr \/ Send \/ Sent \/ replace_state \/ Report)
  /\ WF_vars(\E healthy \in SUBSET Listed(configured) : probe_discovered(healthy))
  /\ WF_vars(Project)
  /\ \A c \in Callers : WF_vars(Look(c)) /\ WF_vars(caller[c] = "waiting" /\ Enable(c))

Spec == Init /\ [][Next]_vars /\ Fairness

-----------------------------------------------------------------------------

\* Between two rounds of the watcher the channel holds exactly the slots of the
\* endpoints counted as available, and the published status describes them.
StatusDescribesChannel ==
  pc = "select" => /\ installed = UNION {{<<u, slot>> : slot \in 0..(configured[u] - 1)} :
                                         u \in available \intersect Listed(configured)}
                   /\ status = Status

\* Once the backend is quiet the channel is configured from its last snapshot
\* and the health entry says what the status says, or that the watcher is gone.
ChannelConverges ==
  /\ <>[](dropped \/ configured = configure(snapshot))
  /\ <>[](health = (pc # "ended" /\ status.readiness = "Ready"))

\* A call that found the ring empty goes out once the ring stays non-empty.
WaitersWake ==
  \A c \in Callers : <>[](installed # {}) => []<>(caller[c] \notin {"enabled", "waiting"})

\* "failed probes are removed until a later probe succeeds": between two rounds
\* no endpoint whose latest probe failed is in the channel.
FailedStayOut == pc = "select" => \A key \in installed : key[1] \notin failed
=============================================================================
