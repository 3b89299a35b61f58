--------------------------- MODULE EtcdDiscovery ---------------------------
(***************************************************************************)
(* Registration and discovery through etcd: RpcServer::serve_with_shutdown *)
(* (rpc/src/lib.rs) and EtcdClient's publish and subscribe with their      *)
(* background tasks (core/src/etcd.rs).                                    *)
(*                                                                         *)
(* Etcd itself is external: a history of key sets, one per revision, and   *)
(* a lease per registration.  A key belongs to the lease it was last put   *)
(* with, so two servers with the same instance name (a restart) share a    *)
(* key.  Foreign is a key another program wrote with a value that is not   *)
(* UTF-8.                                                                  *)
(***************************************************************************)
EXTENDS Naturals, Sequences

CONSTANTS
  Servers,
  Keys,
  KeyOf,      \* the service key of each server
  Foreign,
  None,
  MaxBreaks   \* bound: how often the watch stream breaks or a relist fails

VARIABLES
  history,    \* history[r]: the keys under the prefix at revision r
  owner,      \* per key: the server whose lease holds it, or None
  lease,      \* per server: "none", "live", "gone"
  pc,         \* per server: serve_with_shutdown
  result,     \* per server: what serve_with_shutdown returned
  keeper,     \* per server: the keep-alive task
  sub,        \* the subscription's task
  entries, revision,
  breaks

server_vars == <<lease, pc, result, keeper>>
sub_vars == <<sub, entries, revision, breaks>>
vars == <<history, owner, server_vars, sub_vars>>

Current == history[Len(history)]

TypeOK ==
  /\ history \in Seq(SUBSET (Keys \union {Foreign}))
  /\ owner \in [Keys -> Servers \union {None}]
  /\ lease \in [Servers -> {"none", "live", "gone"}]
  /\ pc \in [Servers -> {"down", "granted", "serving", "draining", "revoking", "stopped"}]
  /\ result \in [Servers -> {"none", "ok", "error", "crashed"}]
  /\ keeper \in [Servers -> {"none", "alive", "stopping", "revoked", "failed"}]
  /\ sub \in {"none", "watching", "sleeping", "ended"}
  /\ entries \subseteq Keys
  /\ revision \in 0..Len(history)
  /\ breaks \in 0..MaxBreaks

Init ==
  /\ history = <<{}>>
  /\ owner = [k \in Keys |-> None]
  /\ lease = [s \in Servers |-> "none"]
  /\ pc = [s \in Servers |-> "down"]
  /\ result = [s \in Servers |-> "none"]
  /\ keeper = [s \in Servers |-> "none"]
  /\ sub = "none" /\ entries = {} /\ revision = 0 /\ breaks = 0

-----------------------------------------------------------------------------
(* Etcd: what a put, and the end of a lease, do to the store.              *)

StorePut(s) ==
  /\ owner' = [owner EXCEPT ![KeyOf[s]] = s]
  /\ history' = Append(history, Current \union {KeyOf[s]})

LeaseEnds(s) ==
  /\ lease' = [lease EXCEPT ![s] = "gone"]
  /\ IF owner[KeyOf[s]] = s
       THEN /\ owner' = [owner EXCEPT ![KeyOf[s]] = None]
            /\ history' = Append(history, Current \ {KeyOf[s]})
       ELSE UNCHANGED <<owner, history>>

\* A lease that is not kept alive runs out; so does one whose keep-alives are
\* late, and its keeper does not notice.
Expire(s) ==
  /\ lease[s] = "live"
  /\ LeaseEnds(s)
  /\ UNCHANGED <<pc, result, keeper, sub_vars>>

ForeignPut ==
  /\ \A r \in DOMAIN history : Foreign \notin history[r]
  /\ history' = Append(history, Current \union {Foreign})
  /\ UNCHANGED <<owner, server_vars, sub_vars>>

-----------------------------------------------------------------------------
(* The server: register, serve, drain, revoke.                             *)

Return(s, value) ==
  /\ pc' = [pc EXCEPT ![s] = "stopped"]
  /\ result' = [result EXCEPT ![s] = value]

connect_fails(s) ==
  /\ pc[s] = "down"
  /\ Return(s, "error")
  /\ UNCHANGED <<history, owner, lease, keeper, sub_vars>>

lease_grant(s) ==
  /\ pc[s] = "down"
  /\ lease' = [lease EXCEPT ![s] = "live"]
  /\ pc' = [pc EXCEPT ![s] = "granted"]
  /\ UNCHANGED <<history, owner, result, keeper, sub_vars>>

\* publish: the put with the lease, then the keeper task.
put(s) ==
  /\ pc[s] = "granted" /\ lease[s] = "live"
  /\ StorePut(s)
  /\ keeper' = [keeper EXCEPT ![s] = "alive"]
  /\ pc' = [pc EXCEPT ![s] = "serving"]
  /\ UNCHANGED <<lease, result, sub_vars>>

put_fails(s) ==
  /\ pc[s] = "granted"
  /\ Return(s, "error")
  /\ UNCHANGED <<history, owner, lease, keeper, sub_vars>>

signal(s) ==
  /\ pc[s] = "serving"
  /\ pc' = [pc EXCEPT ![s] = "draining"]
  /\ UNCHANGED <<history, owner, lease, result, keeper, sub_vars>>

\* oneshot shutdown: sent by revoke and by drop, alike.
Shutdown(s) ==
  keeper' = [keeper EXCEPT ![s] = IF keeper[s] = "alive" THEN "stopping" ELSE keeper[s]]

\* serving ends, with or without a signal; revoke waits for the keeper.
serving_ends(s, value) ==
  /\ pc[s] \in {"serving", "draining"}
  /\ Shutdown(s)
  /\ pc' = [pc EXCEPT ![s] = "revoking"]
  /\ result' = [result EXCEPT ![s] = value]
  /\ UNCHANGED <<history, owner, lease, sub_vars>>

\* Fault: the early return leaves the keeper running.
drain_times_out_leaking(s) ==
  /\ pc[s] = "draining"
  /\ Return(s, "error")
  /\ UNCHANGED <<history, owner, lease, keeper, sub_vars>>

\* The `?` on the shutdown timeout returns at once and drops the lease handle.
drain_times_out(s) ==
  /\ pc[s] = "draining"
  /\ Return(s, "error")
  /\ Shutdown(s)
  /\ UNCHANGED <<history, owner, lease, sub_vars>>

\* Fault: the server reports the result of serving alone.
revoke_ignored(s) ==
  /\ pc[s] = "revoking" /\ keeper[s] \in {"revoked", "failed"}
  /\ Return(s, result[s])
  /\ UNCHANGED <<history, owner, lease, keeper, sub_vars>>

\* serving_result.and(revoke_result)
revoke(s) ==
  /\ pc[s] = "revoking" /\ keeper[s] \in {"revoked", "failed"}
  /\ Return(s, IF keeper[s] = "revoked" THEN result[s] ELSE "error")
  /\ UNCHANGED <<history, owner, lease, keeper, sub_vars>>

\* The keeper revokes the lease; etcd refuses one that is already gone.
lease_revoke(s) ==
  /\ keeper[s] = "stopping" /\ lease[s] = "live"
  /\ LeaseEnds(s)
  /\ keeper' = [keeper EXCEPT ![s] = "revoked"]
  /\ UNCHANGED <<pc, result, sub_vars>>

\* keep_alive, its response stream or lease_revoke failed: the task ends.
keeper_fails(s) ==
  /\ keeper[s] \in {"alive", "stopping"}
  /\ keeper' = [keeper EXCEPT ![s] = "failed"]
  /\ UNCHANGED <<history, owner, lease, pc, result, sub_vars>>

Crash(s) ==
  /\ pc[s] \in {"granted", "serving", "draining", "revoking"}
  /\ Return(s, "crashed")
  /\ keeper' = [keeper EXCEPT ![s] = "failed"]
  /\ UNCHANGED <<history, owner, lease, sub_vars>>

-----------------------------------------------------------------------------
(* The subscriber.                                                         *)

\* subscribe: list the prefix; a value that is not UTF-8 is an error.
subscribe ==
  /\ sub = "none" /\ Foreign \notin Current
  /\ sub' = "watching"
  /\ entries' = Current /\ revision' = Len(history)
  /\ UNCHANGED <<history, owner, server_vars, breaks>>

\* One watch response: apply the event after the last revision seen.
Put == history[revision + 1] \ history[revision]
Delete == history[revision] \ history[revision + 1]

message ==
  /\ sub = "watching" /\ revision < Len(history)
  /\ revision' = revision + 1
  /\ IF Foreign \in Put
       THEN sub' = "ended" /\ entries' = entries
       ELSE sub' = sub /\ entries' = (entries \union Put) \ Delete
  /\ UNCHANGED <<history, owner, server_vars, breaks>>

\* The stream breaks, or could not be opened: sleep for the backoff delay.
stream_breaks ==
  /\ sub = "watching" /\ breaks < MaxBreaks
  /\ sub' = "sleeping" /\ breaks' = breaks + 1
  /\ UNCHANGED <<history, owner, server_vars, entries, revision>>

\* Fault: the relist keeps values that are not UTF-8.
relist_unchecked ==
  /\ sub = "sleeping"
  /\ entries' = Current
  /\ revision' = Len(history) /\ sub' = "watching"
  /\ UNCHANGED <<history, owner, server_vars, breaks>>

\* Fault: the relist adds what it finds to the entries it has.
relist_merging ==
  /\ sub = "sleeping"
  /\ entries' = entries \union (Current \ {Foreign})
  /\ revision' = Len(history) /\ sub' = "watching"
  /\ UNCHANGED <<history, owner, server_vars, breaks>>

\* Always relist: the entries are replaced, values that are not UTF-8 skipped.
relist ==
  /\ sub = "sleeping"
  /\ entries' = Current \ {Foreign}
  /\ revision' = Len(history) /\ sub' = "watching"
  /\ UNCHANGED <<history, owner, server_vars, breaks>>

\* A failed relist watches again from the revision it had.
relist_fails ==
  /\ sub = "sleeping" /\ breaks < MaxBreaks
  /\ sub' = "watching" /\ breaks' = breaks + 1
  /\ UNCHANGED <<history, owner, server_vars, entries, revision>>

Keeper(s) == lease_revoke(s) \/ (keeper[s] = "stopping" /\ keeper_fails(s))

Next ==
  \/ \E s \in Servers :
       \/ connect_fails(s) \/ lease_grant(s) \/ put(s) \/ put_fails(s)
       \/ signal(s) \/ \E value \in {"ok", "error"} : serving_ends(s, value)
       \/ drain_times_out(s) \/ revoke(s) \/ lease_revoke(s) \/ keeper_fails(s)
       \/ Crash(s) \/ Expire(s)
  \/ ForeignPut \/ subscribe \/ message \/ stream_breaks \/ relist \/ relist_fails

\* Spawned tasks run; etcd expires a lease nobody keeps alive.
Fairness ==
  /\ \A s \in Servers : /\ WF_vars(Keeper(s))
                        /\ WF_vars(keeper[s] # "alive" /\ Expire(s))
  /\ WF_vars(message) /\ WF_vars(relist)

Spec == Init /\ [][Next]_vars /\ Fairness

-----------------------------------------------------------------------------

\* What the subscription shows is what etcd held at the revision the watch
\* continues from: no relist, failed relist or redelivery mixes two revisions.
SnapshotWasTrue ==
  sub \in {"watching", "sleeping"} => entries = history[revision] \ {Foreign}

\* serve_with_shutdown returns Ok only when the instance is no longer registered.
OkMeansUnregistered ==
  \A s \in Servers : pc[s] = "stopped" /\ result[s] = "ok" => owner[KeyOf[s]] # s

\* A server that stopped, timed out while draining or crashed leaves the
\* snapshot of a running subscription, unless a successor took over its key.
StoppedDisappear ==
  \A s \in Servers :
    pc[s] = "stopped" ~> \/ owner[KeyOf[s]] \notin {s, None}
                         \/ KeyOf[s] \notin entries
                         \/ sub = "ended"
=============================================================================
