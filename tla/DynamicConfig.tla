--------------------------- MODULE DynamicConfig ---------------------------
(***************************************************************************)
(* The typed configuration center of core/src/config_center.rs: a snapshot *)
(* behind a lock, a generation counter, and a watch channel.  An update    *)
(* takes its generation, replaces the snapshot and publishes it to the     *)
(* watch channel in three steps; nothing is held from one to the next.     *)
(*                                                                         *)
(* A watch channel keeps the last value only; a subscriber that has not    *)
(* seen it is in unseen.                                                   *)
(***************************************************************************)
EXTENDS Naturals

CONSTANTS Updaters, Subscribers, Values, Invalid,
          MaxGeneration  \* bound: the last generation an update may take

VARIABLES
  snapshot, generation, updates,  \* DynamicConfigState; updates: the channel's value
  pc, pending,                    \* of each updater
  seen, unseen,                   \* what each subscriber read last, and who has not
  accepted,                       \* history: the snapshots whose contents parsed
  overlapped                      \* history: has an update begun before another returned?

vars == <<snapshot, generation, updates, pc, pending, seen, unseen, accepted, overlapped>>

Snapshots == [generation : 1..MaxGeneration, value : Values]

TypeOK ==
  /\ snapshot \in Snapshots /\ updates \in Snapshots
  /\ generation \in 1..MaxGeneration
  /\ pc \in [Updaters -> {"idle", "install", "publish"}]
  /\ pending \in [Updaters -> Snapshots]
  /\ seen \in [Subscribers -> Snapshots]
  /\ unseen \subseteq Subscribers
  /\ accepted \subseteq Snapshots
  /\ overlapped \in BOOLEAN

\* new: the initial contents parsed.
Init ==
  \E v \in Values :
    LET first == [generation |-> 1, value |-> v]
    IN  /\ snapshot = first /\ generation = 1 /\ updates = first
        /\ pc = [u \in Updaters |-> "idle"]
        /\ pending = [u \in Updaters |-> first]
        /\ seen = [s \in Subscribers |-> first]
        /\ unseen = {}
        /\ accepted = {first} /\ overlapped = FALSE

\* Fault: the generation is loaded and stored, not added to.
AssignLoaded(u, contents) ==
  /\ pc[u] = "idle" /\ contents # Invalid /\ snapshot.generation < MaxGeneration
  /\ generation' = snapshot.generation + 1
  /\ pending' = [pending EXCEPT ![u] = [generation |-> snapshot.generation + 1, value |-> contents]]
  /\ pc' = [pc EXCEPT ![u] = "install"]
  /\ accepted' = accepted \cup {[generation |-> snapshot.generation + 1, value |-> contents]}
  /\ overlapped' = (overlapped \/ \E v \in Updaters \ {u} : pc[v] # "idle")
  /\ UNCHANGED <<snapshot, updates, seen, unseen>>

\* update: contents that do not parse are rejected before anything changes;
\* for the others fetch_add assigns the next generation.
Assign(u, contents) ==
  /\ pc[u] = "idle" /\ contents # Invalid /\ generation < MaxGeneration
  /\ generation' = generation + 1
  /\ pending' = [pending EXCEPT ![u] = [generation |-> generation + 1, value |-> contents]]
  /\ pc' = [pc EXCEPT ![u] = "install"]
  /\ accepted' = accepted \cup {[generation |-> generation + 1, value |-> contents]}
  /\ overlapped' = (overlapped \/ \E v \in Updaters \ {u} : pc[v] # "idle")
  /\ UNCHANGED <<snapshot, updates, seen, unseen>>

\* Fault: the snapshot behind the lock is not replaced.
InstallLate(u) ==
  /\ pc[u] = "install"
  /\ pc' = [pc EXCEPT ![u] = "publish"]
  /\ UNCHANGED <<snapshot, generation, updates, pending, seen, unseen, accepted, overlapped>>

\* update: the snapshot is replaced under the write lock.
Install(u) ==
  /\ pc[u] = "install"
  /\ snapshot' = pending[u]
  /\ pc' = [pc EXCEPT ![u] = "publish"]
  /\ UNCHANGED <<generation, updates, pending, seen, unseen, accepted, overlapped>>

\* update: send_replace stores the value and wakes the subscribers.
Publish(u) ==
  /\ pc[u] = "publish"
  /\ updates' = pending[u]
  /\ unseen' = Subscribers
  /\ pc' = [pc EXCEPT ![u] = "idle"]
  /\ UNCHANGED <<snapshot, generation, pending, seen, accepted, overlapped>>

\* A subscriber's changed() and borrow_and_update().
Observe(s) ==
  /\ s \in unseen
  /\ seen' = [seen EXCEPT ![s] = updates]
  /\ unseen' = unseen \ {s}
  /\ UNCHANGED <<snapshot, generation, updates, pc, pending, accepted, overlapped>>

Next ==
  \/ \E u \in Updaters :
       \/ \E contents \in Values \cup {Invalid} : Assign(u, contents)
       \/ Install(u) \/ Publish(u)
  \/ \E s \in Subscribers : Observe(s)

Spec == Init /\ [][Next]_vars

-----------------------------------------------------------------------------
\* A generation names one value: update never gives two different contents
\* the same generation, however its callers overlap.
GenerationIdentifies ==
  \A x, y \in accepted : x.generation = y.generation => x = y

\* While updates do not overlap: once the last has returned and every subscriber has caught up,
\* all of them hold what snapshot() returns, and that is the newest generation; a slow
\* subscriber misses generations but never ends with an old one.
ConvergesInTurn ==
  ~overlapped /\ (\A u \in Updaters : pc[u] = "idle") =>
    /\ snapshot.generation = generation
    /\ \A s \in Subscribers \ unseen : seen[s] = snapshot

\* A generation names one value, and updates made in turn reach everybody.
UpdatesConverge == ConvergesInTurn /\ GenerationIdentifies

\* ConvergesInTurn whatever overlaps.  Once every update has returned and every subscriber has caught up, all of
\* them hold what snapshot() returns, and that is the newest generation.
\* (DynamicConfig is "a typed configuration-center primitive with atomic
\* updates and subscriptions".)
Converges ==
  (\A u \in Updaters : pc[u] = "idle") =>
    /\ snapshot.generation = generation
    /\ \A s \in Subscribers \ unseen : seen[s] = snapshot
=============================================================================
