--------------------------- MODULE DiscoveryProofs ---------------------------
(***************************************************************************)
(* What a process keeps of the state that lives elsewhere: in etcd and in  *)
(* Kubernetes (its registration, what its subscriptions show, the slots of *)
(* a discovered channel) and in Redis (the distributed lock), for any      *)
(* servers, keys, slices, endpoints and handles.                           *)
(*                                                                         *)
(* The components share no variable: each is an instance with variables of *)
(* its own, an invariant, Init and Next lemmas and what follows from the   *)
(* invariant.  The last section puts them together.                        *)
(***************************************************************************)
EXTENDS Integers, Sequences, FiniteSets, TLAPS

-----------------------------------------------------------------------------
(* RedisLock: what a handle knows is in its last command; the earlier ones *)
(* were abandoned, and a reply on its way means that none of its commands  *)
(* is left to run.                                                         *)

CONSTANTS Locks, Free, MaxCalls

\* Free stands for no handle's token.
ASSUME LockConfig == Free \notin Locks

\* lock_key and lock_call are its key and call.
VARIABLES lock_key, held, lock_call, wire, answer, calls, lapsed, doubtful

Lock == INSTANCE RedisLock WITH key <- lock_key, call <- lock_call

Commands == [op : Lock!Calls, lost : BOOLEAN]

LockTyped ==
  /\ lock_key \in Locks \cup {Free}
  /\ held \in [Locks -> BOOLEAN]
  /\ lock_call \in [Locks -> Lock!Calls \cup {"idle"}]
  /\ wire \in [Locks -> Seq(Commands)]
  /\ answer \in [Locks -> SUBSET BOOLEAN]

\* Only the last command on a connection may still have a caller, and it is the one of the call
\* in progress; a handle that is in no doubt has left none behind.
Connection(l) ==
  /\ \A i \in 1..Len(wire[l]) : i < Len(wire[l]) => wire[l][i].lost
  /\ lock_call[l] = "idle" => answer[l] = {} /\ \A i \in 1..Len(wire[l]) : wire[l][i].lost
  /\ answer[l] # {} => wire[l] = <<>>
  /\ l \notin doubtful => \A i \in 1..Len(wire[l]) : ~wire[l][i].lost
  /\ \A i \in 1..Len(wire[l]) : ~wire[l][i].lost => wire[l][i].op = lock_call[l]

\* A handle owns the key when its flag says so or its acquire is being told so.
Owns(l) ==
  /\ l \notin lapsed \cup doubtful /\ held[l] /\ lock_call[l] # "release" => lock_key = l
  /\ lock_call[l] = "acquire" /\ TRUE \in answer[l] /\ l \notin lapsed => lock_key = l

LockInv == LockTyped /\ \A l \in Locks : Connection(l) /\ Owns(l)

\* No handle has called yet.
LEMMA InitLock == Lock!Init => LockInv
BY DEF Lock!Init, LockInv, LockTyped, Connection, Owns, Commands

LEMMA NoCommands == /\ <<>> \in Seq(Commands)
                    /\ \A s \in Seq(Commands) : Len(s) = 0 => s = <<>>
OBVIOUS

\* A call puts its command behind those that were abandoned.
LEMMA SendLock ==
  ASSUME LockInv, NEW l \in Locks, NEW op \in Lock!Calls, Lock!Send(l, op)
  PROVE  LockInv'
<1> DEFINE c == [op |-> op, lost |-> FALSE]
<1>1. c \in Commands /\ c.op = op /\ ~c.lost
  BY DEF Commands
<1>2. /\ wire[l] \in Seq(Commands)
      /\ wire'[l] = Append(wire[l], c)
      /\ \A m \in Locks \ {l} : wire'[m] = wire[m] /\ lock_call'[m] = lock_call[m]
      /\ lock_call'[l] = op /\ lock_call[l] = "idle" /\ op # "idle"
  BY DEF Lock!Send, LockInv, LockTyped, Lock!Calls
<1>3. /\ Len(wire'[l]) = Len(wire[l]) + 1 /\ Len(wire[l]) \in Nat
      /\ \A i \in 1..Len(wire[l]) : wire'[l][i] = wire[l][i]
      /\ wire'[l][Len(wire[l]) + 1] = c
  BY <1>1, <1>2
<1>4. LockTyped'
  BY <1>1, <1>2 DEF Lock!Send, LockInv, LockTyped
<1>5. \A i \in 1..Len(wire[l]) : wire[l][i].lost
  BY <1>2 DEF LockInv, Connection
<1>6. l \notin doubtful => Len(wire[l]) = 0
  BY <1>3, <1>5 DEF LockInv, Connection
<1>7. Connection(l)'
  <2>1. UNCHANGED <<answer, doubtful>> /\ answer[l] = {}
    BY <1>2 DEF Lock!Send, LockInv, Connection
  <2>2. QED
    BY <1>1, <1>2, <1>3, <1>5, <1>6, <2>1 DEF Connection
<1>8. \A m \in Locks \ {l} : Connection(m)'
  BY <1>2 DEF Lock!Send, LockInv, Connection
<1>9. \A m \in Locks : Owns(m)'
  BY <1>2 DEF Lock!Send, LockInv, Owns, Connection
<1>10. QED
  BY <1>4, <1>7, <1>8, <1>9 DEF LockInv

\* The server runs a command: its scripts touch only a key that is free or the handle's own.
LEMMA ExecuteLock ==
  ASSUME Free \notin Locks, LockInv, NEW l \in Locks, Lock!Execute(l)
  PROVE  LockInv'
<1> DEFINE c == wire[l][1]
<1>1. /\ wire[l] \in Seq(Commands) /\ wire[l] # <<>> /\ Len(wire[l]) \in Nat /\ Len(wire[l]) >= 1
      /\ Head(wire[l]) = c /\ c \in Commands /\ 1 \in 1..Len(wire[l])
  BY DEF Lock!Execute, LockInv, LockTyped
<1>2. /\ wire'[l] = Tail(wire[l])
      /\ wire'[l] \in Seq(Commands)
      /\ Len(wire'[l]) = Len(wire[l]) - 1
      /\ \A i \in 1..Len(wire'[l]) : wire'[l][i] = wire[l][i + 1]
      /\ \A m \in Locks \ {l} : wire'[m] = wire[m]
  BY <1>1 DEF Lock!Execute, LockInv, LockTyped
<1>3. c.op \in Lock!Calls /\ c.lost \in BOOLEAN
  BY <1>1 DEF Commands
<1>4. /\ c.op = "acquire" => lock_key' = IF lock_key = Free THEN l ELSE lock_key
      /\ c.op = "extend" => lock_key' = lock_key
      /\ c.op = "release" => lock_key' = IF lock_key = l THEN Free ELSE lock_key
  BY <1>1 DEF Lock!Execute, Lock!RunScript
<1>5. lapsed' = IF c.op = "acquire" /\ lock_key = Free THEN lapsed \ {l} ELSE lapsed
  BY <1>1 DEF Lock!Execute
<1>6. /\ c.lost => answer' = answer
      /\ ~c.lost => answer' = [answer EXCEPT ![l] = {IF c.op = "acquire" THEN lock_key = Free ELSE lock_key = l}]
  BY <1>1 DEF Lock!Execute
<1>7. UNCHANGED <<held, lock_call, calls, doubtful>>
  BY DEF Lock!Execute
<1>8. \A m \in Locks \ {l} : answer'[m] = answer[m]
  BY <1>3, <1>6 DEF LockInv, LockTyped
<1>9. ~c.lost => answer'[l] = {IF c.op = "acquire" THEN lock_key = Free ELSE lock_key = l}
  BY <1>6 DEF LockInv, LockTyped
<1>10. LockTyped'
  <2>1. lock_key' \in Locks \cup {Free}
    BY <1>3, <1>4 DEF LockInv, LockTyped, Lock!Calls
  <2>2. answer' \in [Locks -> SUBSET BOOLEAN]
    <3>1. CASE c.lost
      BY <3>1, <1>6 DEF LockInv, LockTyped
    <3>2. CASE ~c.lost
      <4> DEFINE v == IF c.op = "acquire" THEN lock_key = Free ELSE lock_key = l
      <4>1. v \in BOOLEAN
        OBVIOUS
      <4>2. {v} \in SUBSET BOOLEAN
        BY <4>1, Zenon
      <4>3. answer' = [answer EXCEPT ![l] = {v}]
        BY <3>2, <1>6
      <4> HIDE DEF v
      <4>4. QED
        BY <4>2, <4>3 DEF LockInv, LockTyped
    <3>3. QED
      BY <3>1, <3>2
  <2>3. wire' \in [Locks -> Seq(Commands)]
    BY <1>1, <1>2 DEF Lock!Execute, LockInv, LockTyped
  <2>4. QED
    BY <1>7, <2>1, <2>2, <2>3 DEF LockInv, LockTyped
<1>11. ~c.lost => Len(wire[l]) = 1 /\ c.op = lock_call[l]
  <2>1. /\ 1 < Len(wire[l]) => c.lost
        /\ ~c.lost => c.op = lock_call[l]
    BY <1>1 DEF LockInv, Connection
  <2>2. ~(1 < Len(wire[l])) => Len(wire[l]) = 1
    <3>1. Len(wire[l]) \in Nat /\ Len(wire[l]) >= 1
      BY <1>1
    <3>2. \A n \in Nat : n >= 1 /\ ~(1 < n) => n = 1
      OBVIOUS
    <3>3. QED
      BY <3>1, <3>2, Zenon
  <2>3. QED
    BY <2>1, <2>2, Zenon
<1>12. answer[l] = {}
  BY <1>1 DEF LockInv, Connection
<1>13. Connection(l)'
  <2>1. Connection(l)
    BY DEF LockInv
  <2>2. lock_call'[l] = lock_call[l] /\ doubtful' = doubtful
    BY <1>7
  <2>3. ~c.lost => wire'[l] = <<>> /\ lock_call[l] # "idle"
    <3>1. ~c.lost => Len(wire'[l]) = 0
      BY <1>1, <1>2, <1>11
    <3>2. Len(wire'[l]) = 0 => wire'[l] = <<>>
      BY <1>2, NoCommands
    <3>3. ~c.lost => lock_call[l] # "idle"
      BY <1>3, <1>11 DEF Lock!Calls
    <3>4. QED
      BY <3>1, <3>2, <3>3
  <2>4. c.lost => answer'[l] = {}
    BY <1>6, <1>12
  <2>5. CASE c.lost
    BY <2>1, <2>2, <2>4, <2>5, <1>1, <1>2 DEF Connection
  <2>6. CASE ~c.lost
    <3>1. Len(wire'[l]) = 0
      BY <2>3, <2>6
    <3>2. QED
      BY <2>2, <2>3, <2>6, <3>1 DEF Connection
  <2>7. QED
    BY <2>5, <2>6
<1>14. \A m \in Locks \ {l} : Connection(m)'
  BY <1>2, <1>7, <1>8 DEF LockInv, Connection
<1>15. \A m \in Locks \ {l} : Owns(m)'
  BY <1>3, <1>4, <1>5, <1>7, <1>8 DEF LockInv, Owns, LockTyped, Lock!Calls
<1>16. Owns(l)'
  <2>1. ASSUME l \notin lapsed' \cup doubtful', held'[l], lock_call'[l] # "release" PROVE lock_key' = l
    <3>1. ~c.lost /\ c.op = lock_call[l]
      BY <2>1, <1>1, <1>7, <1>11 DEF LockInv, Connection
    <3>2. c.op \in {"acquire", "extend"}
      BY <2>1, <3>1, <1>3, <1>7 DEF Lock!Calls
    <3>3. QED
      BY <2>1, <3>1, <3>2, <1>4, <1>5, <1>7 DEF LockInv, Owns, LockTyped
  <2>2. ASSUME lock_call'[l] = "acquire", TRUE \in answer'[l] PROVE lock_key' = l
    <3>1. ~c.lost
      BY <2>2, <1>6, <1>12
    <3>2. c.op = "acquire"
      BY <2>2, <3>1, <1>7, <1>11
    <3>3. lock_key = Free
      BY <2>2, <3>1, <3>2, <1>9
    <3>4. QED
      BY <3>2, <3>3, <1>4
  <2>3. QED
    BY <2>1, <2>2 DEF Owns
<1>17. QED
  BY <1>10, <1>13, <1>14, <1>15, <1>16 DEF LockInv

\* A reply settles the flag: nothing of the handle is left on the connection.
LEMMA ReturnLock ==
  ASSUME LockInv, NEW l \in Locks, Lock!Return(l)
  PROVE  LockInv'
<1>1. PICK won \in answer[l] :
        /\ held' = [held EXCEPT ![l] = Lock!HeldAfter(l, won)]
        /\ lock_call' = [lock_call EXCEPT ![l] = "idle"]
        /\ answer' = [answer EXCEPT ![l] = {}]
        /\ doubtful' = IF lock_call[l] = "acquire" THEN doubtful \ {l} ELSE doubtful
        /\ UNCHANGED <<lock_key, wire, calls, lapsed>>
  BY DEF Lock!Return
<1>2. won \in BOOLEAN /\ wire[l] = <<>> /\ lock_call[l] \in Lock!Calls
  BY DEF LockInv, LockTyped, Connection
<1>3. /\ lock_call[l] = "acquire" => Lock!HeldAfter(l, won) = won
      /\ lock_call[l] = "extend" => Lock!HeldAfter(l, won) = held[l]
      /\ lock_call[l] = "release" => Lock!HeldAfter(l, won) = FALSE
  BY DEF Lock!HeldAfter
<1>4. Lock!HeldAfter(l, won) \in BOOLEAN
  BY <1>2, <1>3 DEF Lock!Calls, LockInv, LockTyped
<1>5. LockTyped'
  BY <1>1, <1>4 DEF LockInv, LockTyped
<1>6. Connection(l)'
  BY <1>1, <1>2 DEF LockInv, LockTyped, Connection
<1>7. \A m \in Locks \ {l} : Connection(m)'
  BY <1>1 DEF LockInv, LockTyped, Connection
<1>8. \A m \in Locks \ {l} : Owns(m)'
  BY <1>1 DEF LockInv, LockTyped, Owns
<1>9. Owns(l)'
  <2>1. held'[l] = Lock!HeldAfter(l, won) /\ lock_call'[l] = "idle" /\ answer'[l] = {}
    BY <1>1 DEF LockInv, LockTyped
  <2>2. CASE lock_call[l] = "acquire"
    <3>1. held'[l] => TRUE \in answer[l]
      BY <2>1, <2>2, <1>2, <1>3
    <3>2. QED
      BY <2>1, <2>2, <3>1, <1>1 DEF LockInv, Owns
  <2>3. CASE lock_call[l] = "extend"
    BY <2>1, <2>3, <1>1, <1>3 DEF LockInv, Owns
  <2>4. CASE lock_call[l] = "release"
    BY <2>1, <2>4, <1>3 DEF Owns
  <2>5. QED
    BY <2>2, <2>3, <2>4, <1>2 DEF Lock!Calls
<1>10. QED
  BY <1>5, <1>6, <1>7, <1>8, <1>9 DEF LockInv

\* An abandoned call leaves its command to run, or loses it, and the handle in doubt.
LEMMA TimeOutLock ==
  ASSUME LockInv, NEW l \in Locks, Lock!TimeOut(l)
  PROVE  LockInv'
<1> DEFINE lost == [i \in DOMAIN wire[l] |-> [wire[l][i] EXCEPT !.lost = TRUE]]
<1>1. wire[l] \in Seq(Commands) /\ Len(wire[l]) \in Nat
  BY DEF LockInv, LockTyped
<1>2. lost \in [1..Len(wire[l]) -> Commands] /\ \A i \in 1..Len(wire[l]) : lost[i].lost
  <2>1. DOMAIN wire[l] = 1..Len(wire[l]) /\ \A i \in 1..Len(wire[l]) : wire[l][i] \in Commands
    BY <1>1
  <2>2. \A x \in Commands : [x EXCEPT !.lost = TRUE] \in Commands /\ [x EXCEPT !.lost = TRUE].lost
    BY DEF Commands
  <2>3. QED
    BY <2>1, <2>2
<1>3. lost \in Seq(Commands) /\ Len(lost) = Len(wire[l])
  <2> HIDE DEF lost
  <2>1. QED
    BY <1>1, <1>2
<1>4. wire' = [wire EXCEPT ![l] = lost] \/ wire' = [wire EXCEPT ![l] = <<>>]
  BY DEF Lock!TimeOut
<1> HIDE DEF lost
<1>5. /\ wire' \in [Locks -> Seq(Commands)]
      /\ wire'[l] = lost \/ wire'[l] = <<>>
      /\ \A m \in Locks \ {l} : wire'[m] = wire[m]
  <2>1. wire \in [Locks -> Seq(Commands)] /\ <<>> \in Seq(Commands)
    BY NoCommands DEF LockInv, LockTyped
  <2>2. \A s \in Seq(Commands) : wire' = [wire EXCEPT ![l] = s] =>
          /\ wire' \in [Locks -> Seq(Commands)]
          /\ wire'[l] = s
          /\ \A m \in Locks \ {l} : wire'[m] = wire[m]
    BY <2>1, Zenon
  <2>3. QED
    BY <1>3, <1>4, <2>1, <2>2, Zenon
<1>6. LockTyped'
  BY <1>5 DEF Lock!TimeOut, LockInv, LockTyped
<1>7. \A i \in 1..Len(wire'[l]) : wire'[l][i].lost
  BY <1>2, <1>3, <1>5
<1>8. lock_call'[l] = "idle" /\ answer'[l] = {} /\ l \in doubtful'
  BY DEF Lock!TimeOut, LockInv, LockTyped
<1>9. Connection(l)'
  BY <1>7, <1>8 DEF Connection
<1>10. \A m \in Locks \ {l} : Connection(m)'
  BY <1>5 DEF Lock!TimeOut, LockInv, LockTyped, Connection
<1>11. \A m \in Locks : Owns(m)'
  BY <1>8 DEF Lock!TimeOut, LockInv, LockTyped, Owns
<1>12. QED
  BY <1>6, <1>9, <1>10, <1>11 DEF LockInv

\* Every call, command, reply, timeout and expiry keeps the invariant.
LEMMA NextLock ==
  ASSUME Free \notin Locks
  PROVE  LockInv /\ [Lock!Next]_(Lock!vars) => LockInv'
<1> SUFFICES ASSUME LockInv, [Lock!Next]_(Lock!vars) PROVE LockInv'
  OBVIOUS
<1>1. CASE UNCHANGED Lock!vars
  BY <1>1 DEF Lock!vars, LockInv, LockTyped, Connection, Owns
<1>2. CASE Lock!Expire
  BY <1>2 DEF Lock!Expire, LockInv, LockTyped, Connection, Owns
<1>3. ASSUME NEW l \in Locks, Lock!acquire(l) \/ Lock!extend(l) \/ Lock!release(l) PROVE LockInv'
  BY <1>3, SendLock DEF Lock!acquire, Lock!extend, Lock!release, Lock!Calls
<1>4. QED
  BY <1>1, <1>2, <1>3, ExecuteLock, ReturnLock, TimeOutLock DEF Lock!Next

\* What is on its way back to a handle, and whom the history is about.
Answers ==
  /\ answer \in [Locks -> {{}, {TRUE}, {FALSE}}]
  /\ lapsed \subseteq Locks /\ doubtful \subseteq Locks

\* A reply is one Boolean.
LEMMA NextAnswers ==
  ASSUME Free \notin Locks, LockInv, Answers, [Lock!Next]_(Lock!vars)
  PROVE  Answers'
<1>1. answer \in [Locks -> {{}, {TRUE}, {FALSE}}] /\ lock_key \in Locks \cup {Free}
      /\ lapsed \subseteq Locks /\ doubtful \subseteq Locks
  BY DEF Answers, LockInv, LockTyped
<1>2. CASE UNCHANGED Lock!vars
  BY <1>1, <1>2 DEF Lock!vars, Answers
<1>3. CASE Lock!Expire
  BY <1>1, <1>3 DEF Lock!Expire, Answers
<1>4. ASSUME NEW l \in Locks, Lock!acquire(l) \/ Lock!extend(l) \/ Lock!release(l) PROVE Answers'
  BY <1>1, <1>4 DEF Lock!acquire, Lock!extend, Lock!release, Lock!Send, Answers
<1>5. ASSUME NEW l \in Locks, Lock!Execute(l) PROVE Answers'
  <2>1. PICK told \in BOOLEAN : answer' = answer \/ answer' = [answer EXCEPT ![l] = {told}]
    <3>1. answer' = answer \/ \E told \in BOOLEAN : answer' = [answer EXCEPT ![l] = {told}]
      BY <1>5, Zenon DEF Lock!Execute
    <3>2. QED
      BY <3>1
  <2>2. {told} \in {{}, {TRUE}, {FALSE}}
    OBVIOUS
  <2>3. answer' \in [Locks -> {{}, {TRUE}, {FALSE}}]
    BY <1>1, <2>1, <2>2
  <2>4. lapsed' \subseteq Locks /\ doubtful' \subseteq Locks
    BY <1>1, <1>5 DEF Lock!Execute
  <2>5. QED
    BY <2>3, <2>4 DEF Answers
<1>6. ASSUME NEW l \in Locks, Lock!Return(l) \/ Lock!TimeOut(l) PROVE Answers'
  BY <1>1, <1>6 DEF Lock!Return, Lock!TimeOut, Answers
<1>7. QED
  BY <1>2, <1>3, <1>4, <1>5, <1>6 DEF Lock!Next

LEMMA LockTypes == LockInv /\ Answers => Lock!TypeOK
BY DEF LockInv, LockTyped, Commands, Answers, Lock!TypeOK

LEMMA LockKeeps == LockInv => Lock!HeldMeansOwned
BY DEF LockInv, Owns, Lock!HeldMeansOwned

\* RedisLock keeps its holder's key whatever the other handles send, repeat or abandon, for any
\* number of handles and calls.
THEOREM HolderOwnsTheKey == Lock!Spec => []Lock!HeldMeansOwned
BY LockConfig, LockKeeps, InitLock, NextLock, PTL DEF Lock!Spec

-----------------------------------------------------------------------------
(* EtcdDiscovery.  The subscription's entries are those of the revision it *)
(* has reached, and a key whose lease has ended has no owner of that lease.*)

CONSTANTS Servers, Keys, KeyOf, Foreign, None, EtcdBreaks

\* Every server has a service key.
ASSUME EtcdConfig == KeyOf \in [Servers -> Keys] /\ None \notin Servers /\ EtcdBreaks \in Nat

VARIABLES history, owner, lease, etcd_pc, result, keeper, sub, entries, revision, breaks

Etcd == INSTANCE EtcdDiscovery WITH MaxBreaks <- EtcdBreaks, pc <- etcd_pc

etcdVars == <<history, owner, lease, etcd_pc, result, keeper, sub, entries, revision, breaks>>

Serving ==
  /\ owner \in [Keys -> Servers \cup {None}]
  /\ lease \in [Servers -> {"none", "live", "gone"}]
  /\ etcd_pc \in [Servers -> {"down", "granted", "serving", "draining", "revoking", "stopped"}]
  /\ result \in [Servers -> {"none", "ok", "error", "crashed"}]
  /\ keeper \in [Servers -> {"none", "alive", "stopping", "revoked", "failed"}]

\* A key is held under a live lease, a keeper that has revoked leaves no live lease, and only a
\* keeper that has revoked lets a server report Ok.
Leased ==
  /\ \A s \in Servers : owner[KeyOf[s]] = s => lease[s] = "live"
  /\ \A s \in Servers : keeper[s] = "revoked" => lease[s] = "gone"
  /\ \A s \in Servers : etcd_pc[s] = "down" => lease[s] = "none" /\ result[s] = "none"
  /\ \A s \in Servers : etcd_pc[s] \in {"down", "granted", "serving", "draining"} => result[s] # "ok"
  /\ \A s \in Servers : etcd_pc[s] = "stopped" /\ result[s] = "ok" => keeper[s] = "revoked"

Subscribed ==
  /\ history \in Seq(SUBSET (Keys \cup {Foreign})) /\ Len(history) >= 1
  /\ sub \in {"none", "watching", "sleeping", "ended"}
  /\ entries \subseteq Keys
  /\ revision \in 0..Len(history)
  /\ sub # "none" => revision >= 1
  /\ breaks \in 0..EtcdBreaks

EtcdInv == Serving /\ Leased /\ Subscribed /\ Etcd!SnapshotWasTrue

\* Nothing is registered and nobody subscribes.
LEMMA InitEtcd == Etcd!Init => EtcdInv
BY EtcdConfig DEF Etcd!Init, EtcdInv, Serving, Leased, Subscribed, Etcd!SnapshotWasTrue

\* A further revision changes none of those the subscription has seen.
LEMMA RevisionAdded ==
  ASSUME EtcdInv, NEW view \in SUBSET (Keys \cup {Foreign}),
         history' = Append(history, view) \/ history' = history,
         UNCHANGED <<sub, entries, revision, breaks>>
  PROVE  Subscribed' /\ (Etcd!SnapshotWasTrue)'
<1>1. history \in Seq(SUBSET (Keys \cup {Foreign})) /\ Len(history) \in Nat
  BY DEF EtcdInv, Subscribed
<1>2. /\ history' \in Seq(SUBSET (Keys \cup {Foreign})) /\ Len(history') \in Nat
      /\ Len(history') >= Len(history) /\ \A r \in 1..Len(history) : history'[r] = history[r]
  BY <1>1
<1>3. Subscribed'
  BY <1>1, <1>2 DEF EtcdInv, Subscribed
<1>4. sub # "none" => history'[revision] = history[revision]
  BY <1>1, <1>2 DEF EtcdInv, Subscribed
<1>5. QED
  BY <1>3, <1>4 DEF EtcdInv, Etcd!SnapshotWasTrue

\* What etcd holds now.
LEMMA CurrentView == EtcdInv => Etcd!Current \in SUBSET (Keys \cup {Foreign})
BY DEF EtcdInv, Subscribed, Etcd!Current

\* The end of a lease takes its own key and no other.
LEMMA LeaseEndsEtcd ==
  ASSUME EtcdInv, NEW s \in Servers, lease[s] = "live", Etcd!LeaseEnds(s),
         keeper' = [keeper EXCEPT ![s] = "revoked"] \/ UNCHANGED keeper,
         UNCHANGED <<etcd_pc, result, sub, entries, revision, breaks>>
  PROVE  EtcdInv'
<1>1. KeyOf[s] \in Keys /\ \A t \in Servers : KeyOf[t] \in Keys
  BY EtcdConfig
<1>2. lease' = [lease EXCEPT ![s] = "gone"]
  BY DEF Etcd!LeaseEnds
<1>3. owner' = IF owner[KeyOf[s]] = s THEN [owner EXCEPT ![KeyOf[s]] = None] ELSE owner
  BY DEF Etcd!LeaseEnds
<1>4. Serving'
  BY <1>1, <1>2, <1>3 DEF EtcdInv, Serving
<1>5. Leased'
  <2>1. \A t \in Servers : owner'[KeyOf[t]] = t => owner[KeyOf[t]] = t /\ t # s
    BY <1>1, <1>3, EtcdConfig DEF EtcdInv, Serving
  <2>2. \A t \in Servers : t # s => lease'[t] = lease[t] /\ keeper'[t] = keeper[t]
    BY <1>2 DEF EtcdInv, Serving
  <2>3. lease'[s] = "gone" /\ keeper'[s] \in {keeper[s], "revoked"}
    BY <1>2 DEF EtcdInv, Serving
  <2>4. QED
    BY <2>1, <2>2, <2>3 DEF EtcdInv, Leased
<1>6. Subscribed' /\ (Etcd!SnapshotWasTrue)'
  <2>1. Etcd!Current \ {KeyOf[s]} \in SUBSET (Keys \cup {Foreign})
    BY CurrentView
  <2>2. QED
    BY <2>1, RevisionAdded DEF Etcd!LeaseEnds
<1>7. QED
  BY <1>4, <1>5, <1>6 DEF EtcdInv

\* The server's own steps that leave etcd alone.
LEMMA ServerEtcd ==
  ASSUME EtcdInv, NEW s \in Servers,
         \/ Etcd!connect_fails(s) \/ Etcd!lease_grant(s) \/ Etcd!put_fails(s) \/ Etcd!signal(s)
         \/ (\E value \in {"ok", "error"} : Etcd!serving_ends(s, value))
         \/ Etcd!drain_times_out(s) \/ Etcd!revoke(s) \/ Etcd!keeper_fails(s) \/ Etcd!Crash(s)
  PROVE  EtcdInv'
<1> USE DEF Etcd!connect_fails, Etcd!lease_grant, Etcd!put_fails, Etcd!signal, Etcd!serving_ends,
      Etcd!drain_times_out, Etcd!revoke, Etcd!keeper_fails, Etcd!Crash, Etcd!Return, Etcd!Shutdown,
      Etcd!sub_vars
<1>1. UNCHANGED <<history, owner, sub, entries, revision, breaks>>
  OBVIOUS
<1>2. \A t \in Servers : t # s => UNCHANGED <<lease[t], etcd_pc[t], result[t], keeper[t]>>
  BY DEF EtcdInv, Serving
<1>3. Serving'
  BY DEF EtcdInv, Serving
<1>4. /\ lease[s] = "live" => lease'[s] = "live"
      /\ keeper'[s] = "revoked" => lease'[s] = "gone"
      /\ etcd_pc'[s] = "down" => lease'[s] = "none" /\ result'[s] = "none"
      /\ etcd_pc'[s] \in {"down", "granted", "serving", "draining"} => result'[s] # "ok"
      /\ etcd_pc'[s] = "stopped" /\ result'[s] = "ok" => keeper'[s] = "revoked"
  BY DEF EtcdInv, Serving, Leased
<1>5. Leased'
  BY <1>1, <1>2, <1>4 DEF EtcdInv, Leased
<1>6. Subscribed' /\ (Etcd!SnapshotWasTrue)'
  BY <1>1 DEF EtcdInv, Subscribed, Etcd!SnapshotWasTrue
<1>7. QED
  BY <1>3, <1>5, <1>6 DEF EtcdInv

\* publish puts the key under the server's own, live lease.
LEMMA PutEtcd ==
  ASSUME EtcdInv, NEW s \in Servers, Etcd!put(s)
  PROVE  EtcdInv'
<1>1. /\ etcd_pc[s] = "granted" /\ lease[s] = "live" /\ owner' = [owner EXCEPT ![KeyOf[s]] = s]
      /\ history' = Append(history, Etcd!Current \cup {KeyOf[s]})
      /\ keeper' = [keeper EXCEPT ![s] = "alive"] /\ etcd_pc' = [etcd_pc EXCEPT ![s] = "serving"]
      /\ UNCHANGED <<lease, result, sub, entries, revision, breaks>>
  BY DEF Etcd!put, Etcd!StorePut, Etcd!sub_vars
<1>2. KeyOf[s] \in Keys /\ \A t \in Servers : KeyOf[t] \in Keys
  BY EtcdConfig
<1>3. Serving'
  BY <1>1, <1>2 DEF EtcdInv, Serving
<1>4. \A t \in Servers : owner'[KeyOf[t]] = t => t = s \/ owner[KeyOf[t]] = t
  BY <1>1, <1>2 DEF EtcdInv, Serving
<1>5. \A t \in Servers : t # s => etcd_pc'[t] = etcd_pc[t] /\ keeper'[t] = keeper[t]
  BY <1>1 DEF EtcdInv, Serving
<1>6. etcd_pc'[s] = "serving" /\ keeper'[s] = "alive" /\ result'[s] # "ok"
  BY <1>1 DEF EtcdInv, Serving, Leased
<1>7. Leased'
  BY <1>1, <1>4, <1>5, <1>6 DEF EtcdInv, Leased
<1>8. Etcd!Current \cup {KeyOf[s]} \in SUBSET (Keys \cup {Foreign})
  BY <1>2, CurrentView
<1>9. Subscribed' /\ (Etcd!SnapshotWasTrue)'
  BY <1>1, <1>8, RevisionAdded
<1>10. QED
  BY <1>3, <1>7, <1>9 DEF EtcdInv

\* Listing, each watch response and relisting show one revision; a failure keeps the one shown.
LEMMA SubscriberEtcd ==
  ASSUME EtcdInv,
         Etcd!subscribe \/ Etcd!message \/ Etcd!stream_breaks \/ Etcd!relist \/ Etcd!relist_fails
  PROVE  EtcdInv'
<1>1. UNCHANGED <<history, owner, lease, etcd_pc, result, keeper>>
  BY DEF Etcd!subscribe, Etcd!message, Etcd!stream_breaks, Etcd!relist, Etcd!relist_fails, Etcd!server_vars
<1>2. Serving' /\ Leased'
  BY <1>1 DEF EtcdInv, Serving, Leased
<1>3. /\ history \in Seq(SUBSET (Keys \cup {Foreign})) /\ Len(history) \in Nat /\ Len(history) >= 1
      /\ revision \in 0..Len(history) /\ breaks \in 0..EtcdBreaks /\ entries \subseteq Keys
      /\ \A r \in 1..Len(history) : history[r] \subseteq Keys \cup {Foreign}
  BY DEF EtcdInv, Subscribed
<1>4. CASE Etcd!subscribe \/ Etcd!relist
  <2>1. entries' = Etcd!Current \ {Foreign} /\ revision' = Len(history) /\ sub' = "watching" /\ UNCHANGED breaks
    BY <1>4 DEF Etcd!subscribe, Etcd!relist
  <2>2. entries' \subseteq Keys /\ entries' = history[revision'] \ {Foreign}
    BY <2>1, CurrentView DEF Etcd!Current
  <2>3. Subscribed' /\ (Etcd!SnapshotWasTrue)'
    BY <1>1, <1>3, <2>1, <2>2 DEF Subscribed, Etcd!SnapshotWasTrue
  <2>4. QED
    BY <1>2, <2>3 DEF EtcdInv
<1>5. CASE Etcd!message
  <2>1. /\ sub = "watching" /\ revision < Len(history) /\ revision' = revision + 1 /\ UNCHANGED breaks
        /\ revision >= 1 /\ entries = history[revision] \ {Foreign}
    BY <1>5 DEF Etcd!message, EtcdInv, Subscribed, Etcd!SnapshotWasTrue
  <2>2. history[revision] \subseteq Keys \cup {Foreign} /\ history[revision + 1] \subseteq Keys \cup {Foreign}
    BY <1>3, <2>1
  <2>3. CASE Foreign \in Etcd!Put
    <3>1. sub' = "ended" /\ entries' = entries
      BY <1>5, <2>3 DEF Etcd!message
    <3>2. Subscribed' /\ (Etcd!SnapshotWasTrue)'
      BY <1>1, <1>3, <2>1, <3>1 DEF Subscribed, Etcd!SnapshotWasTrue
    <3>3. QED
      BY <1>2, <3>2 DEF EtcdInv
  <2>4. CASE Foreign \notin Etcd!Put
    <3>1. sub' = sub /\ entries' = (entries \cup Etcd!Put) \ Etcd!Delete
      BY <1>5, <2>4 DEF Etcd!message
    <3>2. entries' = history[revision + 1] \ {Foreign}
      BY <2>1, <2>4, <3>1 DEF Etcd!Put, Etcd!Delete
    <3>3. entries' \subseteq Keys
      BY <2>2, <3>2
    <3>4. Subscribed' /\ (Etcd!SnapshotWasTrue)'
      BY <1>1, <1>3, <2>1, <3>1, <3>2, <3>3 DEF Subscribed, Etcd!SnapshotWasTrue
    <3>5. QED
      BY <1>2, <3>4 DEF EtcdInv
  <2>5. QED
    BY <2>3, <2>4
<1>6. CASE Etcd!stream_breaks \/ Etcd!relist_fails
  <2>1. /\ sub \in {"watching", "sleeping"} /\ sub' \in {"watching", "sleeping"} /\ breaks < EtcdBreaks
        /\ breaks' = breaks + 1 /\ UNCHANGED <<entries, revision>>
    BY <1>6 DEF Etcd!stream_breaks, Etcd!relist_fails
  <2>2. Subscribed' /\ (Etcd!SnapshotWasTrue)'
    BY <1>1, <1>3, <2>1, EtcdConfig DEF EtcdInv, Subscribed, Etcd!SnapshotWasTrue
  <2>3. QED
    BY <1>2, <2>2 DEF EtcdInv
<1>7. QED
  BY <1>4, <1>5, <1>6

\* One step of etcd, of a server or of the subscriber.
LEMMA NextEtcd == EtcdInv /\ [Etcd!Next]_etcdVars => EtcdInv'
<1> SUFFICES ASSUME EtcdInv, [Etcd!Next]_etcdVars PROVE EtcdInv'
  OBVIOUS
<1>1. ASSUME NEW s \in Servers, Etcd!lease_revoke(s) \/ Etcd!Expire(s) PROVE EtcdInv'
  BY <1>1, LeaseEndsEtcd DEF Etcd!lease_revoke, Etcd!Expire, Etcd!sub_vars
<1>2. CASE Etcd!ForeignPut
  <2>1. Etcd!Current \cup {Foreign} \in SUBSET (Keys \cup {Foreign})
    BY CurrentView
  <2>2. /\ history' = Append(history, Etcd!Current \cup {Foreign})
        /\ UNCHANGED <<owner, lease, etcd_pc, result, keeper, sub, entries, revision, breaks>>
    BY <1>2 DEF Etcd!ForeignPut, Etcd!server_vars, Etcd!sub_vars
  <2>3. Subscribed' /\ (Etcd!SnapshotWasTrue)'
    BY <2>1, <2>2, RevisionAdded
  <2>4. QED
    BY <2>2, <2>3 DEF EtcdInv, Serving, Leased
<1>3. CASE UNCHANGED etcdVars
  BY <1>3 DEF etcdVars, EtcdInv, Serving, Leased, Subscribed, Etcd!SnapshotWasTrue
<1>4. QED
  BY <1>1, <1>2, <1>3, ServerEtcd, PutEtcd, SubscriberEtcd DEF Etcd!Next

\* A server that reports Ok has had its lease revoked, and its key went with the lease.
LEMMA EtcdKeeps == EtcdInv => Etcd!TypeOK /\ Etcd!OkMeansUnregistered
BY DEF EtcdInv, Serving, Leased, Subscribed, Etcd!TypeOK, Etcd!OkMeansUnregistered

-----------------------------------------------------------------------------
(* KubernetesDiscovery.  Two revisions in a row differ in one slice, so    *)
(* that the event of a revision brings the slices from one to the next; a  *)
(* list under way holds the slices of its revision that were delivered.    *)

CONSTANTS Slices, Contents, Absent, MaxChanges, KubeBreaks

\* The conditions of an endpoint are optional Booleans.
ASSUME KubeConfig ==
  /\ KubeBreaks \in Nat /\ Absent \notin Contents
  /\ \A c \in Contents : /\ c.port \in BOOLEAN
                         /\ \A e \in c.endpoints : /\ e.ready \in {"unset", "true", "false"}
                                                   /\ e.terminating \in {"unset", "true", "false"}

VARIABLES kube_history, conn, listed, todo, pending, slices, shown, published, seen, caller,
  kube_breaks

Kube == INSTANCE KubernetesDiscovery WITH
  MaxBreaks <- KubeBreaks, history <- kube_history, breaks <- kube_breaks

kubeVars == <<kube_history, conn, listed, todo, pending, slices, shown, published, seen, caller,
  kube_breaks>>

Views == [Slices -> Contents \cup {Absent}]

KubeTyped ==
  /\ kube_history \in Seq(Views) /\ Len(kube_history) >= 1
  /\ conn \in {"starting", "listing", "watching", "sleeping", "aborted"}
  /\ listed \in 0..Len(kube_history) /\ seen \in 0..Len(kube_history)
  /\ todo \subseteq Slices
  /\ pending \in Views /\ slices \in Views
  /\ caller \in {"waiting", "subscribed", "timeout"}
  /\ kube_breaks \in 0..KubeBreaks

\* One slice changes at a time.
OneChange ==
  \A r \in 1..(Len(kube_history) - 1) : \E n \in Slices :
    /\ kube_history[r + 1][n] # kube_history[r][n]
    /\ \A m \in Slices \ {n} : kube_history[r + 1][m] = kube_history[r][m]

\* The watcher has a revision from its list on, and the list's slices are that revision's.
ListedWell ==
  /\ conn \in {"listing", "watching"} => listed >= 1
  /\ conn = "listing" =>
       \A n \in Slices : pending[n] = IF n \in todo THEN Absent ELSE kube_history[listed][n]

\* What is shown is what one revision held.
ShownWell ==
  /\ published = TRUE => seen >= 1 /\ slices = kube_history[seen] /\ shown = Kube!combined_endpoints(slices)
  /\ conn = "watching" => published = TRUE /\ seen = listed
  /\ caller = "subscribed" => published = TRUE

KubeInv == KubeTyped /\ published \in BOOLEAN /\ OneChange /\ ListedWell /\ ShownWell

\* The watch has not started.
LEMMA InitKube == Kube!Init => KubeInv
<1> SUFFICES ASSUME Kube!Init PROVE KubeInv
  OBVIOUS
<1>1. PICK view \in Views : kube_history = <<view>>
  BY DEF Kube!Init, Views
<1>2. kube_history \in Seq(Views) /\ Len(kube_history) = 1
  BY <1>1
<1>3. Kube!Empty \in Views
  BY DEF Kube!Empty, Views
<1>4. KubeTyped /\ OneChange
  BY <1>2, <1>3, KubeConfig DEF Kube!Init, KubeTyped, OneChange
<1>5. published = FALSE
  BY DEF Kube!Init
<1>6. ListedWell /\ ShownWell
  BY <1>5 DEF Kube!Init, ListedWell, ShownWell
<1>7. QED
  BY <1>4, <1>5, <1>6, Zenon DEF KubeInv

\* The cluster moves on by one slice.
LEMMA ChangeKube ==
  ASSUME KubeInv, NEW n \in Slices, NEW content \in Contents \cup {Absent}, Kube!ClusterChanges(n, content)
  PROVE  KubeInv'
<1> DEFINE last == Len(kube_history)
           view == [Kube!Current EXCEPT ![n] = content]
<1>1. /\ kube_history \in Seq(Views) /\ last \in Nat /\ last >= 1 /\ kube_history[last] \in Views
  BY DEF KubeInv, KubeTyped
<1>2. /\ kube_history' = Append(kube_history, view) /\ content # kube_history[last][n]
      /\ UNCHANGED <<conn, listed, todo, pending, slices, shown, published, seen, caller, kube_breaks>>
  BY DEF Kube!ClusterChanges, Kube!Current
<1>3. view \in Views /\ view[n] = content /\ \A m \in Slices \ {n} : view[m] = kube_history[last][m]
  BY <1>1 DEF Views, Kube!Current
<1> HIDE DEF view
<1>4. /\ kube_history' \in Seq(Views) /\ Len(kube_history') = last + 1 /\ kube_history'[last + 1] = view
      /\ \A r \in 1..last : kube_history'[r] = kube_history[r]
  BY <1>1, <1>2, <1>3
<1> HIDE DEF last
<1>5. KubeTyped'
  BY <1>1, <1>2, <1>4 DEF KubeInv, KubeTyped, last
<1>6. OneChange'
  <2>1. ASSUME NEW r \in 1..(Len(kube_history') - 1)
        PROVE  \E k \in Slices : /\ kube_history'[r + 1][k] # kube_history'[r][k]
                                 /\ \A m \in Slices \ {k} : kube_history'[r + 1][m] = kube_history'[r][m]
    <3>1. CASE r = last
      <4>1. kube_history'[r + 1] = view /\ kube_history'[r] = kube_history[last]
        BY <1>1, <1>4, <3>1
      <4>2. QED
        BY <1>2, <1>3, <4>1
    <3>2. CASE r # last
      <4>1. r \in 1..(last - 1) /\ r \in 1..last /\ r + 1 \in 1..last
        BY <1>1, <1>4, <3>2
      <4>2. QED
        BY <1>4, <4>1 DEF KubeInv, OneChange, last
    <3>3. QED
      BY <3>1, <3>2
  <2>2. QED
    BY <2>1 DEF OneChange
<1>7. (conn \in {"listing", "watching"} => kube_history'[listed] = kube_history[listed])
      /\ (published = TRUE => kube_history'[seen] = kube_history[seen])
  BY <1>1, <1>4 DEF KubeInv, KubeTyped, ListedWell, ShownWell, last
<1>8. ListedWell' /\ ShownWell'
  BY <1>2, <1>7 DEF KubeInv, ListedWell, ShownWell, Kube!combined_endpoints
<1>9. (published \in BOOLEAN)'
  BY <1>2, Zenon DEF KubeInv
<1>10. QED
  BY <1>5, <1>6, <1>8, <1>9 DEF KubeInv

\* The list, the swap of its result and the steps around the stream.
LEMMA WatchKube ==
  ASSUME KubeInv,
         \/ Kube!EventInit \/ (\E n \in Slices : Kube!EventInitApply(n)) \/ Kube!EventInitDone
         \/ Kube!StreamFails \/ Kube!Reconnect \/ Kube!DropSubscription
  PROVE  KubeInv'
<1> USE DEF KubeInv
<1>1. /\ kube_history \in Seq(Views) /\ Len(kube_history) \in Nat /\ Len(kube_history) >= 1
      /\ \A r \in 1..Len(kube_history) : kube_history[r] \in Views
  BY DEF KubeTyped
<1>2. Kube!Empty \in Views /\ \A n \in Slices : Kube!Empty[n] = Absent
  BY DEF Kube!Empty, Views
<1>3. CASE Kube!EventInit
  <2>1. /\ conn' = "listing" /\ listed' = Len(kube_history) /\ pending' = Kube!Empty
        /\ todo' = {n \in Slices : kube_history[Len(kube_history)][n] # Absent}
        /\ UNCHANGED <<kube_history, slices, shown, published, seen, caller, kube_breaks>>
    BY <1>3 DEF Kube!EventInit, Kube!Current
  <2>2. KubeTyped' /\ OneChange' /\ ShownWell'
    BY <1>1, <1>2, <2>1 DEF KubeTyped, OneChange, ShownWell, Kube!combined_endpoints
  <2>3. ListedWell'
    BY <1>1, <1>2, <2>1 DEF ListedWell
  <2>4. (published \in BOOLEAN)'
    BY <2>1, Zenon
  <2>5. QED
    BY <2>2, <2>3, <2>4
<1>4. ASSUME NEW n \in Slices, Kube!EventInitApply(n) PROVE KubeInv'
  <2>1. /\ conn = "listing" /\ n \in todo /\ todo' = todo \ {n}
        /\ pending' = [pending EXCEPT ![n] = kube_history[listed][n]]
        /\ UNCHANGED <<kube_history, conn, listed, slices, shown, published, seen, caller, kube_breaks>>
    BY <1>4 DEF Kube!EventInitApply
  <2>2. listed \in 1..Len(kube_history) /\ kube_history[listed] \in Views
    BY <1>1, <2>1 DEF KubeTyped, ListedWell
  <2>3. pending' \in Views
    BY <2>1, <2>2 DEF KubeTyped, Views
  <2>4. KubeTyped' /\ OneChange' /\ ShownWell'
    BY <2>1, <2>3 DEF KubeTyped, OneChange, ShownWell, Kube!combined_endpoints
  <2>5. ListedWell'
    BY <2>1, <2>2 DEF KubeTyped, Views, ListedWell
  <2>6. (published \in BOOLEAN)'
    BY <2>1, Zenon
  <2>7. QED
    BY <2>4, <2>5, <2>6
<1>5. CASE Kube!EventInitDone
  <2>1. /\ conn = "listing" /\ todo = {} /\ conn' = "watching" /\ slices' = pending
        /\ shown' = Kube!combined_endpoints(pending) /\ published' = TRUE /\ pending' = Kube!Empty /\ seen' = listed
        /\ UNCHANGED <<kube_history, listed, todo, caller, kube_breaks>>
    BY <1>5 DEF Kube!EventInitDone, Kube!Show
  <2>2. listed \in 1..Len(kube_history) /\ kube_history[listed] \in Views
    BY <1>1, <2>1 DEF KubeTyped, ListedWell
  <2>3. pending = kube_history[listed]
    BY <2>1, <2>2 DEF KubeTyped, Views, ListedWell
  <2>4. KubeTyped' /\ OneChange' /\ ListedWell'
    BY <1>1, <1>2, <2>1, <2>2 DEF KubeTyped, OneChange, ListedWell
  <2>5. ShownWell'
    BY <2>1, <2>2, <2>3 DEF ShownWell, Kube!combined_endpoints
  <2>6. (published \in BOOLEAN)'
    BY <2>1, Zenon
  <2>7. QED
    BY <2>4, <2>5, <2>6
<1>6. CASE Kube!StreamFails \/ Kube!Reconnect \/ Kube!DropSubscription
  <2>1. /\ conn' \in {"sleeping", "starting", "aborted"} /\ pending' \in {pending, Kube!Empty}
        /\ todo' \subseteq Slices /\ kube_breaks' \in 0..KubeBreaks
        /\ UNCHANGED <<kube_history, listed, slices, shown, published, seen, caller>>
    BY <1>6, KubeConfig DEF Kube!StreamFails, Kube!Reconnect, Kube!DropSubscription, KubeTyped
  <2>2. KubeTyped' /\ OneChange' /\ ListedWell' /\ ShownWell'
    BY <1>2, <2>1 DEF KubeTyped, OneChange, ListedWell, ShownWell, Kube!combined_endpoints
  <2>3. (published \in BOOLEAN)'
    BY <2>1, Zenon
  <2>4. QED
    BY <2>2, <2>3
<1>7. QED
  BY <1>3, <1>4, <1>5, <1>6

\* The event of the next revision turns the slices of one revision into those of the next.
LEMMA EventKube ==
  ASSUME KubeInv, Kube!EventApplyOrDelete
  PROVE  KubeInv'
<1> DEFINE new == kube_history[listed + 1]
           old == kube_history[listed]
           n == CHOOSE k \in Slices : new[k] # old[k]
           view == [slices EXCEPT ![n] = new[n]]
<1>1. /\ conn = "watching" /\ listed < Len(kube_history) /\ listed' = listed + 1 /\ seen' = listed + 1
      /\ slices' = view /\ shown' = Kube!combined_endpoints(view) /\ published' = TRUE
      /\ UNCHANGED <<kube_history, conn, todo, pending, caller, kube_breaks>>
  BY DEF Kube!EventApplyOrDelete, Kube!Show
<1>2. /\ kube_history \in Seq(Views) /\ listed \in 1..(Len(kube_history) - 1) /\ Len(kube_history) \in Nat
      /\ slices = old
  BY <1>1 DEF KubeInv, KubeTyped, ListedWell, ShownWell
<1>3. old \in Views /\ new \in Views
  BY <1>2
<1>4. PICK k \in Slices : new[k] # old[k] /\ \A m \in Slices \ {k} : new[m] = old[m]
  BY <1>2 DEF KubeInv, OneChange
<1>5. n = k
  BY <1>4
<1> HIDE DEF n
<1>6. view = new
  BY <1>2, <1>3, <1>4, <1>5 DEF Views
<1> HIDE DEF view
<1>7. KubeTyped'
  BY <1>1, <1>2, <1>3, <1>6 DEF KubeInv, KubeTyped
<1>8. OneChange' /\ ListedWell'
  <2>1. UNCHANGED kube_history /\ conn' = "watching" /\ listed' \in Nat /\ listed' >= 1
    BY <1>1, <1>2
  <2>2. OneChange'
    BY <2>1 DEF KubeInv, OneChange
  <2>3. QED
    BY <2>1, <2>2 DEF ListedWell
<1>9. ShownWell'
  BY <1>1, <1>2, <1>6 DEF ShownWell, Kube!combined_endpoints
<1>10. (published \in BOOLEAN)'
  BY <1>1, Zenon
<1>11. QED
  BY <1>7, <1>8, <1>9, <1>10 DEF KubeInv

\* One step of the cluster, of the watch task or of subscribe.
LEMMA NextKube == KubeInv /\ [Kube!Next]_kubeVars => KubeInv'
<1> SUFFICES ASSUME KubeInv, [Kube!Next]_kubeVars PROVE KubeInv'
  OBVIOUS
<1>1. CASE Kube!Started \/ Kube!StartupTimeout
  <2>1. /\ UNCHANGED <<kube_history, listed, todo, pending, slices, shown, published, seen, kube_breaks>>
        /\ \/ published = TRUE /\ caller' = "subscribed" /\ UNCHANGED conn
           \/ caller' = "timeout" /\ conn' = "aborted"
    BY <1>1 DEF Kube!Started, Kube!StartupTimeout, KubeInv
  <2>2. KubeTyped' /\ OneChange' /\ ListedWell' /\ ShownWell'
    BY <2>1 DEF KubeInv, KubeTyped, OneChange, ListedWell, ShownWell, Kube!combined_endpoints
  <2>3. (published \in BOOLEAN)'
    BY <2>1, Zenon DEF KubeInv
  <2>4. QED
    BY <2>2, <2>3 DEF KubeInv
<1>2. CASE UNCHANGED kubeVars
  <2>1. KubeTyped' /\ OneChange' /\ ListedWell' /\ ShownWell'
    BY <1>2 DEF kubeVars, KubeInv, KubeTyped, OneChange, ListedWell, ShownWell, Kube!combined_endpoints
  <2>2. (published \in BOOLEAN)'
    BY <1>2, Zenon DEF KubeInv, kubeVars
  <2>3. QED
    BY <2>1, <2>2 DEF KubeInv
<1>3. QED
  BY <1>1, <1>2, ChangeKube, WatchKube, EventKube DEF Kube!Next

\* combined_endpoints gives the ready endpoints of the slices that have the port.
LEMMA KubeKeeps == KubeInv => Kube!TypeOK /\ Kube!SlicesWereTrue
<1> SUFFICES ASSUME KubeInv PROVE Kube!TypeOK /\ Kube!SlicesWereTrue
  OBVIOUS
<1>1. Kube!TypeOK
  <2>1. published \in BOOLEAN
    BY Zenon DEF KubeInv
  <2>2. QED
    BY <2>1 DEF KubeInv, KubeTyped, Views, Kube!TypeOK
<1>2. caller = "subscribed" => published
  BY DEF KubeInv, ShownWell
<1>3. ASSUME published
      PROVE  shown = {e.address : e \in {e \in UNION {kube_history[seen][n].endpoints :
                        n \in {n \in Slices : kube_history[seen][n] # Absent /\ kube_history[seen][n].port}} :
                          e.ready \in {"unset", "true"} /\ e.terminating \in {"unset", "false"}}}
  <2> DEFINE view == kube_history[seen]
             ready == {e \in UNION {view[n].endpoints : n \in {n \in Slices : view[n] # Absent /\ view[n].port}} :
                          e.ready \in {"unset", "true"} /\ e.terminating \in {"unset", "false"}}
  <2>1. seen \in 1..Len(kube_history) /\ shown = Kube!combined_endpoints(view)
    BY <1>3 DEF KubeInv, KubeTyped, ShownWell
  <2>2. view \in Views
    BY <2>1 DEF KubeInv, KubeTyped
  <2> HIDE DEF view
  <2>3. \A n \in Slices : view[n] # Absent => view[n] \in Contents
    BY <2>2 DEF Views
  <2>4. ASSUME NEW n \in Slices, view[n] # Absent
        PROVE  /\ view[n].port \in BOOLEAN
               /\ \A e \in view[n].endpoints :
                    Kube!serves(e) <=> e.ready \in {"unset", "true"} /\ e.terminating \in {"unset", "false"}
    BY <2>3, <2>4, KubeConfig DEF Kube!serves
  <2>5. ASSUME NEW x PROVE x \in Kube!combined_endpoints(view) <=> \E e \in ready : x = e.address
    <3>1. x \in Kube!combined_endpoints(view)
            <=> \E n \in Slices : view[n] # Absent /\ x \in Kube!endpoints_from_slice(view[n])
      BY DEF Kube!combined_endpoints
    <3>2. ASSUME NEW n \in Slices, view[n] # Absent
          PROVE  x \in Kube!endpoints_from_slice(view[n])
                   <=> view[n].port /\ \E e \in view[n].endpoints : Kube!serves(e) /\ x = e.address
      BY <2>4, <3>2 DEF Kube!endpoints_from_slice
    <3>3. (\E e \in ready : x = e.address)
            <=> \E n \in Slices : /\ view[n] # Absent /\ view[n].port
                                  /\ \E e \in view[n].endpoints : /\ e.ready \in {"unset", "true"}
                                                                  /\ e.terminating \in {"unset", "false"}
                                                                  /\ x = e.address
      OBVIOUS
    <3>4. QED
      BY <2>4, <3>1, <3>2, <3>3
  <2>6. Kube!combined_endpoints(view) = {e.address : e \in ready}
    BY <2>5
  <2>7. QED
    BY <2>1, <2>6 DEF view
<1>4. QED
  BY <1>1, <1>2, <1>3 DEF Kube!SlicesWereTrue

-----------------------------------------------------------------------------
(* DiscoveredChannel.  A round of the watcher that has sent its changes    *)
(* leaves the channel with the slots it wanted, and the next round starts  *)
(* once that is reported.                                                  *)

CONSTANTS Uris, Malformed, Snapshots, Rank, SubsetSize, ChannelCallers, MaxPublishes, MaxProbes

\* A snapshot gives every URI a weight.
ASSUME ChannelConfig == Snapshots \subseteq [Uris -> Nat]

VARIABLES hashed, snapshot, unseen, source, dropped, channel_pc, configured, discovered, rejected,
  available, installed, status, health, projected, channel_caller, woken, publishes, probes, failed

Channel == INSTANCE DiscoveredChannel WITH
  Callers <- ChannelCallers, pc <- channel_pc, caller <- channel_caller

channelVars == <<hashed, snapshot, unseen, source, dropped, channel_pc, configured, discovered,
  rejected, available, installed, status, health, projected, channel_caller, woken, publishes,
  probes, failed>>

ChannelTyped ==
  /\ snapshot \in Snapshots
  /\ source \in {"open", "closed"}
  /\ channel_pc \in {"select", "probing", "apply", "report", "ended"}
  /\ configured \in [Uris -> Nat]
  /\ available \subseteq Uris /\ failed \subseteq Uris
  /\ installed \subseteq Uris \X Nat
  /\ status.readiness \in {"Empty", "Ready", "Degraded"}
  /\ channel_caller \in [ChannelCallers -> {"idle", "enabled", "waiting", "sent"}]
  /\ woken \subseteq ChannelCallers

ChannelFlags ==
  /\ hashed \in BOOLEAN /\ unseen \in BOOLEAN /\ dropped \in BOOLEAN /\ projected \in BOOLEAN
  /\ health \in BOOLEAN

RoundDone ==
  /\ channel_pc \in {"select", "report"} => installed = Channel!Desired
  /\ channel_pc = "select" => status = Channel!Status

ChannelInv == ChannelTyped /\ ChannelFlags /\ RoundDone

\* What configure_discovered gives has slots of the URIs.
LEMMA Configured ==
  ASSUME NEW s \in Snapshots
  PROVE  Channel!configure(s) \in [Uris -> Nat] /\ Channel!Listed(Channel!configure(s)) \subseteq Uris
BY ChannelConfig DEF Channel!configure, Channel!Listed

LEMMA SlotsTyped ==
  ASSUME NEW c \in [Uris -> Nat], NEW a \in SUBSET Uris
  PROVE  Channel!weighted_keys(c, a) \subseteq Uris \X Nat
BY DEF Channel!weighted_keys, Channel!Listed

LEMMA Readiness ==
  ASSUME NEW d, NEW m, NEW a, NEW r
  PROVE  Channel!discovery_status(d, m, a, r).readiness \in {"Empty", "Ready", "Degraded"}
BY DEF Channel!discovery_status

\* The snapshot at connect time is installed and reported.
LEMMA InitChannel == Channel!Init => ChannelInv
<1> SUFFICES ASSUME Channel!Init PROVE ChannelInv
  OBVIOUS
<1>1. ChannelFlags
  BY Zenon DEF Channel!Init, ChannelFlags
<1>2. /\ snapshot \in Snapshots /\ configured = Channel!configure(snapshot)
      /\ available = Channel!Listed(configured) /\ installed = Channel!weighted_keys(configured, available)
      /\ status = Channel!Status
  BY DEF Channel!Init
<1>3. configured \in [Uris -> Nat] /\ available \subseteq Uris
  BY <1>2, Configured
<1>4. installed \subseteq Uris \X Nat
  BY <1>2, <1>3, SlotsTyped
<1>5. status.readiness \in {"Empty", "Ready", "Degraded"}
  BY <1>2, Readiness DEF Channel!Status
<1>6. ChannelTyped
  BY <1>2, <1>3, <1>4, <1>5 DEF Channel!Init, ChannelTyped
<1>7. RoundDone
  BY <1>2 DEF RoundDone, Channel!Desired
<1>8. QED
  BY <1>1, <1>6, <1>7 DEF ChannelInv

\* The flags: only Booleans are assigned.
LEMMA FlagsChannel ==
  ASSUME ChannelInv, Channel!Next
  PROVE  ChannelFlags'
<1>1. hashed \in BOOLEAN /\ unseen \in BOOLEAN /\ dropped \in BOOLEAN /\ projected \in BOOLEAN
      /\ health \in BOOLEAN
  BY Zenon DEF ChannelInv, ChannelFlags
<1>2. ASSUME NEW s \in Snapshots, Channel!Publish(s) PROVE ChannelFlags'
  BY <1>1, <1>2, Zenon DEF Channel!Publish, Channel!health_vars, ChannelFlags
<1>3. CASE Channel!CloseSource
  BY <1>1, <1>3, Zenon DEF Channel!CloseSource, Channel!health_vars, ChannelFlags
<1>4. CASE Channel!DropChannel
  BY <1>1, <1>4, Zenon DEF Channel!DropChannel, Channel!health_vars, Channel!source_vars, ChannelFlags
<1>5. CASE Channel!Leave
  BY <1>1, <1>5, Zenon DEF Channel!Leave, Channel!source_vars, ChannelFlags
<1>6. CASE Channel!Changed
  BY <1>1, <1>6, Zenon DEF Channel!Changed, Channel!health_vars, ChannelFlags
<1>7. CASE Channel!ChangedErr
  BY <1>1, <1>7, Zenon DEF Channel!ChangedErr, Channel!source_vars, ChannelFlags
<1>8. CASE Channel!HealthTick
  BY <1>1, <1>8, Zenon DEF Channel!HealthTick, Channel!health_vars, Channel!source_vars, ChannelFlags
<1>9. ASSUME NEW healthy \in SUBSET Channel!Listed(configured), Channel!probe_discovered(healthy)
      PROVE  ChannelFlags'
  BY <1>1, <1>9, Zenon DEF Channel!probe_discovered, Channel!health_vars, Channel!source_vars, ChannelFlags
<1>10. CASE Channel!Send
  BY <1>1, <1>10, Zenon DEF Channel!Send, Channel!health_vars, Channel!source_vars, ChannelFlags
<1>11. CASE Channel!Sent
  BY <1>1, <1>11, Zenon DEF Channel!Sent, Channel!health_vars, Channel!source_vars, ChannelFlags
<1>12. CASE Channel!replace_state
  BY <1>1, <1>12, Zenon DEF Channel!replace_state, Channel!health_vars, Channel!source_vars, ChannelFlags
<1>13. CASE Channel!Report
  BY <1>1, <1>13, Zenon DEF Channel!Report, Channel!source_vars, ChannelFlags
<1>14. CASE Channel!Project
  BY <1>1, <1>14, Zenon DEF Channel!Project, Channel!source_vars, ChannelFlags
<1>15. ASSUME NEW c \in ChannelCallers, Channel!Enable(c) \/ Channel!Look(c) PROVE ChannelFlags'
  BY <1>1, <1>15, Zenon DEF Channel!Enable, Channel!Look, Channel!health_vars, Channel!source_vars, ChannelFlags
<1>16. QED
  BY <1>2, <1>3, <1>4, <1>5, <1>6, <1>7, <1>8, <1>9, <1>10, <1>11, <1>12, <1>13, <1>14, <1>15, Zenon
  DEF Channel!Next

\* What is wanted and what is reported depend on the watcher's own state only.
LEMMA SameDesired ==
  ASSUME UNCHANGED <<configured, available>>
  PROVE  (Channel!Desired)' = Channel!Desired
BY DEF Channel!Desired, Channel!weighted_keys, Channel!Listed

LEMMA SameStatus ==
  ASSUME UNCHANGED <<configured, discovered, rejected, available>>
  PROVE  (Channel!Status)' = Channel!Status
BY DEF Channel!Status, Channel!discovery_status, Channel!Listed

\* A step that leaves what the watcher is about alone.
LEMMA OthersChannel ==
  ASSUME ChannelInv,
         UNCHANGED <<channel_pc, configured, discovered, rejected, available, installed, status, failed>>,
         snapshot' \in Snapshots, source' \in {"open", "closed"},
         channel_caller' \in [ChannelCallers -> {"idle", "enabled", "waiting", "sent"}],
         woken' \subseteq ChannelCallers
  PROVE  ChannelTyped' /\ RoundDone'
<1>1. (Channel!Desired)' = Channel!Desired /\ (Channel!Status)' = Channel!Status
  BY SameDesired, SameStatus
<1>2. QED
  BY <1>1 DEF ChannelInv, ChannelTyped, RoundDone

\* The steps of the watcher.
LEMMA WatcherChannel ==
  ASSUME ChannelInv,
         \/ Channel!Leave \/ Channel!Changed \/ Channel!ChangedErr \/ Channel!HealthTick
         \/ (\E healthy \in SUBSET Channel!Listed(configured) : Channel!probe_discovered(healthy))
         \/ Channel!Send \/ Channel!Sent \/ Channel!replace_state \/ Channel!Report
  PROVE  ChannelTyped' /\ RoundDone'
<1> USE DEF Channel!source_vars, Channel!task_vars, Channel!caller_vars, Channel!health_vars
<1>1. /\ ChannelTyped /\ RoundDone
      /\ Channel!Desired \subseteq Uris \X Nat
  BY SlotsTyped DEF ChannelInv, ChannelTyped, Channel!Desired
<1>2. CASE Channel!Leave \/ Channel!HealthTick
  <2>1. /\ channel_pc' \in {"ended", "probing"}
        /\ UNCHANGED <<snapshot, source, configured, available, failed, installed, status, channel_caller, woken>>
    BY <1>2 DEF Channel!Leave, Channel!HealthTick
  <2>2. QED
    BY <1>1, <2>1 DEF ChannelTyped, RoundDone
<1>3. CASE Channel!Changed
  <2>1. /\ configured' = Channel!configure(snapshot) /\ available' = Channel!Listed(configured')
        /\ channel_pc' = "apply"
        /\ UNCHANGED <<snapshot, source, failed, installed, status, channel_caller, woken>>
    BY <1>3 DEF Channel!Changed
  <2>2. configured' \in [Uris -> Nat] /\ available' \subseteq Uris
    BY <1>1, <2>1, Configured DEF ChannelTyped
  <2>3. QED
    BY <1>1, <2>1, <2>2 DEF ChannelTyped, RoundDone
<1>4. CASE Channel!ChangedErr
  <2>1. /\ channel_pc' = "ended" /\ status'.readiness = "Degraded"
        /\ UNCHANGED <<snapshot, source, configured, available, failed, installed, channel_caller, woken>>
    BY <1>4 DEF Channel!ChangedErr, Channel!discovery_status
  <2>2. QED
    BY <1>1, <2>1 DEF ChannelTyped, RoundDone
<1>5. ASSUME NEW healthy \in SUBSET Channel!Listed(configured), Channel!probe_discovered(healthy)
      PROVE  ChannelTyped' /\ RoundDone'
  <2>1. /\ channel_pc' = "apply" /\ available' = healthy /\ failed' = Channel!Listed(configured) \ healthy
        /\ UNCHANGED <<snapshot, source, configured, installed, status, channel_caller, woken>>
    BY <1>5 DEF Channel!probe_discovered
  <2>2. available' \subseteq Uris /\ failed' \subseteq Uris
    BY <1>5, <2>1 DEF Channel!Listed
  <2>3. QED
    BY <1>1, <2>1, <2>2 DEF ChannelTyped, RoundDone
<1>6. CASE Channel!Send
  <2>1. /\ channel_pc' = "apply" /\ installed' \subseteq Uris \X Nat
        /\ UNCHANGED <<snapshot, source, configured, available, failed, status, channel_caller, woken>>
    BY <1>1, <1>6 DEF Channel!Send, ChannelTyped
  <2>2. QED
    BY <1>1, <2>1 DEF ChannelTyped, RoundDone
<1>7. CASE Channel!Sent \/ Channel!replace_state
  <2>1. /\ channel_pc' = "report" /\ installed' = Channel!Desired
        /\ woken' \subseteq ChannelCallers
        /\ UNCHANGED <<snapshot, source, configured, available, failed, status, channel_caller>>
    BY <1>1, <1>7 DEF Channel!Sent, Channel!replace_state, ChannelTyped
  <2>2. (Channel!Desired)' = Channel!Desired
    BY <2>1, SameDesired
  <2>3. QED
    BY <1>1, <2>1, <2>2 DEF ChannelTyped, RoundDone
<1>8. CASE Channel!Report
  <2>1. /\ channel_pc = "report" /\ channel_pc' = "select" /\ status' = Channel!Status
        /\ UNCHANGED <<snapshot, source, configured, discovered, rejected, available, failed, installed,
             channel_caller, woken>>
    BY <1>8 DEF Channel!Report
  <2>2. (Channel!Desired)' = Channel!Desired /\ (Channel!Status)' = Channel!Status
    BY <2>1, SameDesired, SameStatus
  <2>3. status'.readiness \in {"Empty", "Ready", "Degraded"}
    BY <2>1, Readiness DEF Channel!Status
  <2>4. QED
    BY <1>1, <2>1, <2>2, <2>3 DEF ChannelTyped, RoundDone
<1>9. QED
  BY <1>2, <1>3, <1>4, <1>5, <1>6, <1>7, <1>8

\* One step of the backend, the watcher, the projector or a caller.
LEMMA NextChannel == ChannelInv /\ [Channel!Next]_channelVars => ChannelInv'
<1> SUFFICES ASSUME ChannelInv, [Channel!Next]_channelVars PROVE ChannelInv'
  OBVIOUS
<1>1. CASE UNCHANGED channelVars
  <2>1. ChannelTyped' /\ RoundDone'
    BY <1>1, OthersChannel DEF channelVars, ChannelInv, ChannelTyped
  <2>2. ChannelFlags'
    BY <1>1, Zenon DEF channelVars, ChannelInv, ChannelFlags
  <2>3. QED
    BY <2>1, <2>2 DEF ChannelInv
<1>2. CASE Channel!Next
  <2> USE DEF Channel!source_vars, Channel!task_vars, Channel!caller_vars, Channel!health_vars
  <2>1. ASSUME NEW s \in Snapshots, Channel!Publish(s) PROVE ChannelTyped' /\ RoundDone'
    BY <2>1, OthersChannel DEF Channel!Publish, ChannelInv, ChannelTyped
  <2>2. ASSUME Channel!CloseSource \/ Channel!DropChannel \/ Channel!Project
        PROVE  ChannelTyped' /\ RoundDone'
    BY <2>2, OthersChannel DEF Channel!CloseSource, Channel!DropChannel, Channel!Project, ChannelInv, ChannelTyped
  <2>3. ASSUME NEW c \in ChannelCallers, Channel!Enable(c) \/ Channel!Look(c) PROVE ChannelTyped' /\ RoundDone'
    BY <2>3, OthersChannel DEF Channel!Enable, Channel!Look, ChannelInv, ChannelTyped
  <2>4. ChannelTyped' /\ RoundDone'
    BY <1>2, <2>1, <2>2, <2>3, WatcherChannel DEF Channel!Next
  <2>5. QED
    BY <1>2, <2>4, FlagsChannel DEF ChannelInv
<1>3. QED
  BY <1>1, <1>2

\* Between two rounds the slots are those of the available endpoints.
LEMMA ChannelKeeps == ChannelInv => Channel!TypeOK /\ Channel!StatusDescribesChannel
<1> SUFFICES ASSUME ChannelInv PROVE Channel!TypeOK /\ Channel!StatusDescribesChannel
  OBVIOUS
<1>1. hashed \in BOOLEAN /\ unseen \in BOOLEAN /\ dropped \in BOOLEAN /\ projected \in BOOLEAN
      /\ health \in BOOLEAN
  BY Zenon DEF ChannelInv, ChannelFlags
<1>2. Channel!TypeOK
  BY <1>1 DEF ChannelInv, ChannelTyped, Channel!TypeOK
<1>3. Channel!StatusDescribesChannel
  BY DEF ChannelInv, RoundDone, Channel!StatusDescribesChannel, Channel!Desired, Channel!weighted_keys
<1>4. QED
  BY <1>2, <1>3

-----------------------------------------------------------------------------
(* All four at once.  They share no variable, so that each keeps its        *)
(* invariant whatever the others do in the same step.                       *)

Discovery ==
  /\ Lock!Init /\ [][Lock!Next]_(Lock!vars)
  /\ Etcd!Init /\ [][Etcd!Next]_etcdVars
  /\ Kube!Init /\ [][Kube!Next]_kubeVars
  /\ Channel!Init /\ [][Channel!Next]_channelVars

\* Every component keeps its types.
TypesOK == Lock!TypeOK /\ Etcd!TypeOK /\ Kube!TypeOK /\ Channel!TypeOK

\* What a subscription shows is what the cluster held at one moment: the etcd entries of the
\* revision its watch continues from, the ready endpoints of one revision of the slices.
SnapshotsWereTrue == Etcd!SnapshotWasTrue /\ Kube!SlicesWereTrue

\* What is published is so: between two rounds of the watcher the status describes the channel's
\* slots, a server that reports a clean stop is no longer registered, and a RedisLock that reports
\* itself held owns the key unless its lease lapsed or an answer was lost.
ReportsTrue ==
  Channel!StatusDescribesChannel /\ Etcd!OkMeansUnregistered /\ Lock!HeldMeansOwned

LEMMA AllKept == Discovery => [](LockInv /\ Answers /\ EtcdInv /\ KubeInv /\ ChannelInv)
<1>1. Lock!Init => LockInv /\ Answers
  BY InitLock DEF Lock!Init, Answers
<1>2. LockInv /\ Answers /\ [Lock!Next]_(Lock!vars) => LockInv' /\ Answers'
  BY LockConfig, NextLock, NextAnswers
<1>3. QED
  BY <1>1, <1>2, InitEtcd, NextEtcd, InitKube, NextKube, InitChannel, NextChannel, PTL
  DEF Discovery

\* Registration, both subscriptions, the channel and the lock keep their types.
THEOREM TypesAreKept == Discovery => []TypesOK
<1>1. LockInv /\ Answers /\ EtcdInv /\ KubeInv /\ ChannelInv => TypesOK
  BY LockTypes, EtcdKeeps, KubeKeeps, ChannelKeeps DEF TypesOK
<1>2. QED
  BY <1>1, AllKept, PTL

\* However the watches break and the cluster changes, what the etcd and the Kubernetes
\* subscriptions show is a state the cluster was in, for any servers, keys and slices.
THEOREM SnapshotsAreTrue == Discovery => []SnapshotsWereTrue
<1>1. EtcdInv /\ KubeInv => SnapshotsWereTrue
  BY KubeKeeps DEF EtcdInv, SnapshotsWereTrue
<1>2. QED
  BY <1>1, AllKept, PTL

\* The status of a discovered channel describes its slots, and Ok of a server's stop means that it
\* is unregistered, and a lock's holder owns the key, for any endpoints, snapshots, servers and
\* handles.
THEOREM ReportsAreTrue == Discovery => []ReportsTrue
<1>1. EtcdInv /\ ChannelInv /\ LockInv => ReportsTrue
  BY EtcdKeeps, ChannelKeeps, LockKeeps DEF ReportsTrue
<1>2. QED
  BY <1>1, AllKept, PTL
=============================================================================
