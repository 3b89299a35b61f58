-------------------------- MODULE LifecycleProofs ---------------------------
(***************************************************************************)
(* The components that stop or change while they run, side by side, and    *)
(* what holds of each for any workers, messages, services, updaters,       *)
(* subscribers and buffers.                                                *)
(*                                                                         *)
(* In the queue runtime that a message is in one place only is what makes  *)
(* the counts exact; that nobody leaves a queue which was not told to stop *)
(* while something is queued makes an Ok of wait mean that all was done.   *)
(***************************************************************************)
EXTENDS QueueRuntime, FiniteSetTheorems, TLAPS

Accepted == 1..pushed

\* Every accepted message is somewhere, and nothing else is.
Placed ==
  /\ \A i \in 1..Len(channel) : channel[i] \in Accepted
  /\ \A w \in Handling : message[w] \in Accepted
  /\ finished \subseteq Accepted /\ lost \subseteq Accepted
  /\ \A m \in Accepted : \/ \E i \in 1..Len(channel) : channel[i] = m
                         \/ \E w \in Handling : message[w] = m
                         \/ m \in finished \cup lost

\* It is nowhere else.
Once ==
  /\ \A i, j \in 1..Len(channel) : channel[i] = channel[j] => i = j
  /\ \A i \in 1..Len(channel) : /\ channel[i] \notin finished \cup lost
                                /\ \A w \in Handling : channel[i] # message[w]
  /\ \A w \in Handling : /\ message[w] \notin finished \cup lost
                         /\ \A v \in Handling : message[v] = message[w] => v = w

Counted ==
  /\ Len(channel) + Cardinality(Handling) + Cardinality(finished) + Cardinality(lost) = pushed
  /\ inflight = Cardinality(Handling) + Cardinality(lost)

QueueInv == TypeOK /\ Placed /\ Once /\ Counted

\* Who has left a queue that was not told to stop found it closed and empty; who was joined has
\* left by itself; a lost message has ended its worker; and Ok is final.
Ends ==
  /\ handle \in {"held", "waiting"} =>
       state # "Shutdown" /\ \A w \in Workers : pc[w] = "exited" => ~producers /\ channel = <<>>
  /\ handle \in {"held", "draining", "waiting"} => \A w \in joined : pc[w] = "exited"
  /\ handle \in {"held", "draining", "waiting", "dropped"} => outcome = "none"
  /\ lost # {} => \E w \in Workers : pc[w] \in {"panicked", "aborted"}
  /\ outcome = "Ok" => /\ \A w \in Workers : pc[w] = "exited"
                       /\ handle = "waited" => channel = <<>>

\* Who took a message while the queue was not running looks at the state before it takes another.
Prompt ==
  \A w \in late : state # "Running" /\ pc[w] \in {"handling", "check", "paused"} \cup Ended

-----------------------------------------------------------------------------
(* Sequences, as the channels use them                                     *)

LEMMA SeqEmpty == \A S : <<>> \in Seq(S) /\ Len(<<>>) = 0 /\ \A s \in Seq(S) : s # <<>> => Len(s) \in Nat \ {0}
OBVIOUS

LEMMA SeqLength ==
  ASSUME NEW S, NEW s \in Seq(S)
  PROVE  Len(s) \in Nat /\ s \in [1..Len(s) -> S] /\ DOMAIN s = 1..Len(s)
OBVIOUS

LEMMA SeqElement ==
  ASSUME NEW S, NEW s \in Seq(S), NEW n \in 1..Len(s)
  PROVE  s[n] \in S
OBVIOUS

LEMMA SeqAppend ==
  ASSUME NEW S, NEW s \in Seq(S), NEW e \in S
  PROVE  /\ Append(s, e) \in Seq(S) /\ Len(Append(s, e)) = Len(s) + 1
         /\ Append(s, e)[Len(s) + 1] = e /\ \A i \in 1..Len(s) : Append(s, e)[i] = s[i]
OBVIOUS

LEMMA SeqTail ==
  ASSUME NEW S, NEW s \in Seq(S), s # <<>>
  PROVE  /\ Head(s) \in S /\ Tail(s) \in Seq(S) /\ Len(Tail(s)) = Len(s) - 1
         /\ \A i \in 1..Len(Tail(s)) : Tail(s)[i] = s[i + 1]
OBVIOUS

-----------------------------------------------------------------------------
(* Counting                                                                *)

\* The sets that the invariant counts are finite.
LEMMA Finite ==
  ASSUME TypeOK
  PROVE  /\ IsFiniteSet(Handling) /\ Cardinality(Handling) \in Nat
         /\ IsFiniteSet(finished) /\ Cardinality(finished) \in Nat
         /\ IsFiniteSet(lost) /\ Cardinality(lost) \in Nat
<1>1. Handling \in SUBSET Workers /\ IsFiniteSet(Workers)
  BY QueueConfig DEF Handling
<1>2. finished \in SUBSET (1..MaxMessages) /\ lost \in SUBSET (1..MaxMessages)
  BY DEF TypeOK
<1>3. IsFiniteSet(1..MaxMessages)
  <2>1. 1 \in Int /\ MaxMessages \in Int
    BY QueueConfig
  <2>2. QED
    BY <2>1, FS_Interval
<1>4. QED
  BY <1>1, <1>2, <1>3, FS_Subset, FS_CardinalityType, Zenon

\* A worker that moves from or to its handler is one handler less or more.
LEMMA WorkerMoves ==
  ASSUME TypeOK, NEW w \in Workers, NEW s, Goto(w, s)
  PROVE  /\ Handling' = IF s = "handling" THEN Handling \cup {w} ELSE Handling \ {w}
         /\ w \in Handling <=> pc[w] = "handling"
         /\ w \in Handling /\ s # "handling" => Cardinality(Handling') = Cardinality(Handling) - 1
                                                /\ Cardinality(Handling) >= 1
         /\ w \notin Handling /\ s = "handling" => Cardinality(Handling') = Cardinality(Handling) + 1
         /\ w \notin Handling /\ s # "handling" => Handling' = Handling
<1>1. /\ Handling' = IF s = "handling" THEN Handling \cup {w} ELSE Handling \ {w}
      /\ w \in Handling <=> pc[w] = "handling"
  BY DEF Goto, Handling, TypeOK
<1>2. IsFiniteSet(Handling) /\ Cardinality(Handling) \in Nat
  BY Finite
<1>3. /\ w \in Handling => Cardinality(Handling \ {w}) = Cardinality(Handling) - 1
      /\ w \notin Handling => Cardinality(Handling \cup {w}) = Cardinality(Handling) + 1
      /\ w \in Handling => Cardinality(Handling) # 0
  BY <1>2, FS_AddElement, FS_RemoveElement, FS_EmptySet, Zenon
<1>4. w \notin Handling => Handling \ {w} = Handling
  OBVIOUS
<1>5. QED
  BY <1>1, <1>2, <1>3, <1>4

\* Steps that move no message keep the books.
LEMMA Unmoved ==
  ASSUME Placed, Once, Counted, Handling' = Handling,
         \A w \in Handling : message'[w] = message[w],
         UNCHANGED <<channel, pushed, finished, lost, inflight>>
  PROVE  Placed' /\ Once' /\ Counted'
BY DEF Placed, Once, Counted, Accepted

-----------------------------------------------------------------------------
(* The steps that move a message                                           *)

\* push puts a new message at the end of the queue.
LEMMA PushMoves ==
  ASSUME QueueInv, Push
  PROVE  QueueInv'
<1>1. /\ channel \in Seq(1..MaxMessages) /\ pushed \in Nat /\ pushed + 1 \in 1..MaxMessages
      /\ channel' = Append(channel, pushed + 1) /\ pushed' = pushed + 1
      /\ Len(channel) \in Nat /\ Len(channel) + 1 <= Capacity
  BY QueueConfig DEF Push, QueueInv, TypeOK
<1>2. /\ channel' \in Seq(1..MaxMessages) /\ Len(channel') = Len(channel) + 1
      /\ \A i \in 1..Len(channel) : channel'[i] = channel[i]
      /\ channel'[Len(channel) + 1] = pushed + 1
  BY <1>1
<1>3. UNCHANGED <<pc, message, finished, lost, inflight>> /\ Handling' = Handling
  BY DEF Push, worker_vars, Handling
<1>4. TypeOK'
  BY <1>1, <1>2 DEF Push, QueueInv, TypeOK, worker_vars, handle_vars
<1>5. /\ Accepted' = Accepted \cup {pushed + 1} /\ pushed + 1 \notin Accepted
      /\ 1..Len(channel') = 1..Len(channel) \cup {Len(channel) + 1}
      /\ Len(channel) + 1 \notin 1..Len(channel)
  BY <1>1, <1>2 DEF Accepted
<1>6. Placed'
  BY <1>2, <1>3, <1>5 DEF QueueInv, Placed
<1>7. Once'
  BY <1>2, <1>3, <1>5 DEF QueueInv, Placed, Once
<1>8. Counted'
  <2>1. /\ Cardinality(Handling) \in Nat /\ Cardinality(finished) \in Nat
        /\ Cardinality(lost) \in Nat
    BY Finite DEF QueueInv
  <2>2. /\ Cardinality(Handling') = Cardinality(Handling) /\ inflight' = inflight
        /\ Cardinality(finished') = Cardinality(finished) /\ Cardinality(lost') = Cardinality(lost)
    BY <1>3, Zenon
  <2>3. QED
    BY <1>1, <1>2, <2>1, <2>2 DEF QueueInv, Counted
<1>9. QED
  BY <1>4, <1>6, <1>7, <1>8 DEF QueueInv

\* A worker takes the oldest message from the queue.
LEMMA ReceiveMoves ==
  ASSUME QueueInv, NEW w \in Workers, Receive(w)
  PROVE  QueueInv'
<1> DEFINE n == Len(channel)
<1>1. /\ channel \in Seq(1..MaxMessages) /\ channel # <<>> /\ channel' = Tail(channel)
      /\ message' = [message EXCEPT ![w] = Head(channel)]
      /\ UNCHANGED <<pushed, finished, lost>> /\ inflight' = inflight + 1
      /\ Goto(w, "handling") /\ pc[w] = "receive"
  BY DEF Receive, QueueInv, TypeOK
<1>2. /\ n \in Nat /\ n >= 1 /\ n <= Capacity /\ Head(channel) = channel[1]
      /\ channel[1] \in 1..MaxMessages
      /\ channel' \in Seq(1..MaxMessages) /\ Len(channel') = n - 1
      /\ \A i \in 1..Len(channel') : channel'[i] = channel[i + 1] /\ i + 1 \in 1..n
  <2>1. n \in Nat /\ n >= 1 /\ n <= Capacity
    BY <1>1 DEF QueueInv, TypeOK
  <2>2. Head(channel) = channel[1] /\ channel[1] \in 1..MaxMessages
    <3>1. 1 \in 1..n
      BY <2>1
    <3>2. Head(channel) = channel[1]
      BY <1>1
    <3>3. channel[1] \in 1..MaxMessages
      BY <1>1, <3>1, SeqElement, Zenon
    <3>4. QED
      BY <3>2, <3>3
  <2>3. channel' \in Seq(1..MaxMessages) /\ Len(channel') = n - 1
    BY <1>1
  <2>4. \A i \in 1..Len(channel') : channel'[i] = channel[i + 1] /\ i + 1 \in 1..n
    BY <1>1, <2>1, <2>3
  <2>5. QED
    BY <2>1, <2>2, <2>3, <2>4
<1>3. /\ Handling' = Handling \cup {w} /\ w \notin Handling
      /\ Cardinality(Handling') = Cardinality(Handling) + 1
  BY <1>1, WorkerMoves DEF QueueInv
<1>4. message'[w] = channel[1] /\ \A v \in Handling : message'[v] = message[v] /\ v # w
  BY <1>1, <1>2, <1>3 DEF QueueInv, TypeOK, Handling
<1>5. TypeOK'
  <2>1. pc' \in [Workers -> {"check", "paused", "select", "receive", "parked", "handling"} \cup Ended]
    BY <1>1 DEF QueueInv, TypeOK, Goto
  <2>2. message' \in [Workers -> 0..MaxMessages] /\ inflight' \in Nat
    BY <1>1, <1>2 DEF QueueInv, TypeOK
  <2>3. lock' \subseteq Workers /\ Cardinality(lock') <= 1
    BY FS_EmptySet DEF Receive
  <2>4. late' \subseteq Workers
    BY DEF Receive, QueueInv, TypeOK
  <2>5. Len(channel') <= Capacity
    BY <1>2, QueueConfig
  <2>6. QED
    BY <1>1, <1>2, <2>1, <2>2, <2>3, <2>4, <2>5 DEF Receive, QueueInv, TypeOK, handle_vars
<1>6. Placed'
  <2>1. ASSUME NEW m \in Accepted, NEW i \in 1..n, channel[i] = m, i # 1
        PROVE  \E j \in 1..Len(channel') : channel'[j] = m
    <3>1. i - 1 \in 1..Len(channel')
      BY <1>2, <2>1
    <3>2. channel'[i - 1] = m
      BY <1>2, <2>1, <3>1
    <3>3. QED
      BY <3>1, <3>2
  <2>2. 1 \in 1..n
    BY <1>2
  <2>3. \A m \in Accepted : \/ \E j \in 1..Len(channel') : channel'[j] = m
                            \/ \E v \in Handling' : message'[v] = m
                            \/ m \in finished \cup lost
    BY <1>3, <1>4, <2>1 DEF QueueInv, Placed
  <2>4. Accepted' = Accepted
    BY <1>1 DEF Accepted
  <2>5. \A i \in 1..Len(channel') : channel'[i] \in Accepted
    BY <1>2 DEF QueueInv, Placed
  <2>6. QED
    BY <1>1, <1>3, <1>4, <2>2, <2>3, <2>4, <2>5 DEF QueueInv, Placed
<1>7. Once'
  <2>1. 1 \in 1..n /\ \A i \in 1..Len(channel') : channel'[i] # channel[1]
    BY <1>2 DEF QueueInv, Once
  <2>2. \A i, j \in 1..Len(channel') : channel'[i] = channel'[j] => i = j
    BY <1>2 DEF QueueInv, Once
  <2>3. \A i \in 1..Len(channel') : /\ channel'[i] \notin finished' \cup lost'
                                    /\ \A v \in Handling' : channel'[i] # message'[v]
    BY <1>1, <1>2, <1>3, <1>4, <2>1 DEF QueueInv, Once
  <2>4. \A v \in Handling' : /\ message'[v] \notin finished' \cup lost'
                             /\ \A u \in Handling' : message'[u] = message'[v] => u = v
    BY <1>1, <1>3, <1>4, <2>1 DEF QueueInv, Once
  <2>5. QED
    BY <2>2, <2>3, <2>4 DEF Once
<1>8. Counted'
  <2>1. /\ Cardinality(Handling) \in Nat /\ Cardinality(finished) \in Nat
        /\ Cardinality(lost) \in Nat
    BY Finite DEF QueueInv
  <2>2. QED
    BY <1>1, <1>2, <1>3, <2>1 DEF QueueInv, Counted
<1>9. QED
  BY <1>5, <1>6, <1>7, <1>8 DEF QueueInv

\* A handler that ends, in one way or another, leaves its message finished or lost; only one
\* that returns takes it off the gauge.
LEMMA HandlerMoves ==
  ASSUME QueueInv, NEW w \in Workers, pc[w] = "handling",
         NEW s \in {"check"} \cup Ended, Goto(w, s),
         message' = [message EXCEPT ![w] = 0], UNCHANGED <<channel, pushed>>,
         \/ /\ finished' = finished \cup {message[w]} /\ UNCHANGED lost
            /\ inflight' = inflight - 1
         \/ /\ lost' = lost \cup {message[w]} /\ UNCHANGED finished
            /\ UNCHANGED inflight
  PROVE  /\ Placed' /\ Once' /\ Counted' /\ inflight' \in Nat
         /\ pc' \in [Workers -> {"check", "paused", "select", "receive", "parked", "handling"} \cup Ended]
         /\ message' \in [Workers -> 0..MaxMessages]
         /\ finished' \subseteq 1..MaxMessages /\ lost' \subseteq 1..MaxMessages
<1>1. /\ Handling' = Handling \ {w} /\ w \in Handling /\ s # "handling"
      /\ Cardinality(Handling') = Cardinality(Handling) - 1 /\ Cardinality(Handling) >= 1
  BY WorkerMoves DEF QueueInv, Ended
<1>2. message[w] \in Accepted /\ message[w] \notin finished \cup lost
  BY <1>1 DEF QueueInv, Placed, Once
<1>3. Accepted' = Accepted /\ \A v \in Handling' : message'[v] = message[v] /\ v \in Handling
  BY <1>1 DEF Accepted, QueueInv, TypeOK, Handling
<1>4. finished' \cup lost' = finished \cup lost \cup {message[w]}
  OBVIOUS
<1>5. finished' \subseteq Accepted /\ lost' \subseteq Accepted
  BY <1>2 DEF QueueInv, Placed
<1>6. Placed'
  BY <1>1, <1>2, <1>3, <1>4, <1>5 DEF QueueInv, Placed
<1>7. Once'
  BY <1>1, <1>2, <1>3, <1>4 DEF QueueInv, Once
<1>8. /\ Cardinality(Handling) \in Nat /\ Cardinality(finished) \in Nat /\ Cardinality(lost) \in Nat
      /\ Len(channel) \in Nat /\ inflight \in Nat /\ pushed \in Nat
  BY Finite DEF QueueInv, TypeOK
<1>9. /\ Cardinality(finished \cup {message[w]}) = Cardinality(finished) + 1
      /\ Cardinality(lost \cup {message[w]}) = Cardinality(lost) + 1
  BY <1>2, Finite, FS_AddElement, Zenon DEF QueueInv
<1>10. inflight = Cardinality(Handling) + Cardinality(lost)
  BY DEF QueueInv, Counted
<1>11. inflight' \in Nat
  BY <1>1, <1>8, <1>10
<1>12. Counted'
  <2>1. CASE finished' = finished \cup {message[w]} /\ UNCHANGED lost /\ inflight' = inflight - 1
    <3>1. Cardinality(finished') = Cardinality(finished) + 1 /\ Cardinality(lost') = Cardinality(lost)
      BY <1>9, <2>1, Zenon
    <3>2. Len(channel') = Len(channel) /\ pushed' = pushed
      BY Zenon
    <3>3. Len(channel) + Cardinality(Handling) + Cardinality(finished) + Cardinality(lost) = pushed
      BY DEF QueueInv, Counted
    <3>4. Len(channel') + Cardinality(Handling') + Cardinality(finished') + Cardinality(lost') = pushed'
      BY <1>1, <1>8, <3>1, <3>2, <3>3
    <3>5. inflight' = Cardinality(Handling') + Cardinality(lost')
      BY <1>1, <1>8, <1>10, <2>1, <3>1
    <3>6. QED
      BY <3>4, <3>5 DEF Counted
  <2>2. CASE lost' = lost \cup {message[w]} /\ UNCHANGED <<finished, inflight>>
    <3>1. /\ Cardinality(lost') = Cardinality(lost) + 1
          /\ Cardinality(finished') = Cardinality(finished) /\ inflight' = inflight
      BY <1>9, <2>2, Zenon
    <3>2. Len(channel') = Len(channel) /\ pushed' = pushed
      BY Zenon
    <3>3. Len(channel) + Cardinality(Handling) + Cardinality(finished) + Cardinality(lost) = pushed
      BY DEF QueueInv, Counted
    <3>4. Len(channel') + Cardinality(Handling') + Cardinality(finished') + Cardinality(lost') = pushed'
      BY <1>1, <1>8, <3>1, <3>2, <3>3
    <3>5. inflight' = Cardinality(Handling') + Cardinality(lost')
      BY <1>1, <1>8, <1>10, <3>1
    <3>6. QED
      BY <3>4, <3>5 DEF Counted
  <2>3. QED
    BY <2>1, <2>2
<1>13. finished' \subseteq 1..MaxMessages /\ lost' \subseteq 1..MaxMessages
  BY <1>2, <1>5, QueueConfig DEF Accepted, QueueInv, TypeOK
<1>14. pc' \in [Workers -> {"check", "paused", "select", "receive", "parked", "handling"} \cup Ended]
  BY DEF QueueInv, TypeOK, Goto
<1>15. message' \in [Workers -> 0..MaxMessages]
  BY QueueConfig DEF QueueInv, TypeOK
<1>16. QED
  BY <1>6, <1>7, <1>11, <1>12, <1>13, <1>14, <1>15

\* A worker that moves elsewhere touches no message.
LEMMA OtherMoves ==
  ASSUME QueueInv, NEW w \in Workers, pc[w] # "handling",
         NEW s \in {"check", "paused", "select", "receive", "parked"} \cup Ended, Goto(w, s),
         message' = message \/ message' = [message EXCEPT ![w] = 0],
         UNCHANGED <<channel, pushed, finished, lost, inflight>>
  PROVE  /\ Placed' /\ Once' /\ Counted'
         /\ pc' \in [Workers -> {"check", "paused", "select", "receive", "parked", "handling"} \cup Ended]
         /\ message' \in [Workers -> 0..MaxMessages]
<1>1. Handling' = Handling /\ w \notin Handling
  BY WorkerMoves DEF QueueInv, Ended
<1>2. \A v \in Handling : message'[v] = message[v]
  BY <1>1 DEF QueueInv, TypeOK, Handling
<1>3. Placed' /\ Once' /\ Counted'
  BY <1>1, <1>2, Unmoved DEF QueueInv
<1>4. pc' \in [Workers -> {"check", "paused", "select", "receive", "parked", "handling"} \cup Ended]
  BY DEF QueueInv, TypeOK, Goto
<1>5. message' \in [Workers -> 0..MaxMessages]
  BY QueueConfig DEF QueueInv, TypeOK
<1>6. QED
  BY <1>3, <1>4, <1>5

\* At most one worker holds the mutex: it is given up, kept or taken when it is free.
LEMMA LockTyped ==
  ASSUME TypeOK, NEW w \in Workers
  PROVE  /\ \A l \in {lock, lock \ {w}, {}, {w}} : l \subseteq Workers /\ Cardinality(l) <= 1
<1>1. lock \subseteq Workers /\ Cardinality(lock) <= 1 /\ IsFiniteSet(lock)
  BY QueueConfig, FS_Subset DEF TypeOK
<1>2. Cardinality(lock \ {w}) <= 1
  <2>1. Cardinality(lock) \in Nat /\ Cardinality(lock \ {w}) \in Nat
        /\ Cardinality(lock \ {w}) <= Cardinality(lock)
    BY <1>1, FS_CardinalityType, FS_Subset
  <2>2. QED
    BY <1>1, <2>1
<1>3. Cardinality({}) <= 1 /\ Cardinality({w}) <= 1
  BY FS_EmptySet, FS_Singleton
<1>4. QED
  BY <1>1, <1>2, <1>3

\* The steps of worker_loop keep the books.
LEMMA WorkerKeeps ==
  ASSUME QueueInv, NEW w \in Workers, WorkerStep(w) \/ HandlerPanics(w) \/ Aborted(w)
  PROVE  QueueInv'
<1> USE DEF channel_vars, handle_vars
<1>1. /\ \A l \in {lock, lock \ {w}, {}, {w}} : l \subseteq Workers /\ Cardinality(l) <= 1
      /\ TypeOK
  BY LockTyped DEF QueueInv
<1>2. CASE Check(w)
  <2>1. PICK s \in {"exited", "paused", "select"} : Goto(w, s)
    BY <1>1, <1>2 DEF Check, TypeOK
  <2>2. /\ pc[w] # "handling" /\ s \in {"check", "paused", "select", "receive", "parked"} \cup Ended
        /\ UNCHANGED <<channel, pushed, finished, lost, inflight>> /\ message' = message
    BY <1>2 DEF Check, Ended
  <2>3. TypeOK'
    BY <1>1, <1>2, <2>1, <2>2, OtherMoves DEF Check, TypeOK
  <2>4. QED
    BY <2>1, <2>2, <2>3, OtherMoves DEF QueueInv
<1>3. CASE Changed(w)
  <2>1. PICK s \in {"check", "exited"} : Goto(w, s)
    BY <1>3 DEF Changed
  <2>2. /\ pc[w] # "handling" /\ s \in {"check", "paused", "select", "receive", "parked"} \cup Ended
        /\ UNCHANGED <<channel, pushed, finished, lost, inflight>> /\ message' = message
    BY <1>3 DEF Changed, Ended
  <2>3. TypeOK'
    BY <1>1, <1>3, <2>1, <2>2, OtherMoves DEF Changed, TypeOK
  <2>4. QED
    BY <2>1, <2>2, <2>3, OtherMoves DEF QueueInv
<1>4. CASE Unchanged(w) \/ Wake(w) \/ Park(w) \/ ReceiveClosed(w)
  <2>1. PICK s \in {"receive", "select", "parked", "exited"} : Goto(w, s)
    BY <1>4 DEF Unchanged, Wake, Park, ReceiveClosed
  <2>2. /\ pc[w] # "handling" /\ s \in {"check", "paused", "select", "receive", "parked"} \cup Ended
        /\ UNCHANGED <<channel, pushed, finished, lost, inflight>> /\ message' = message
    BY <1>4 DEF Unchanged, Wake, Park, ReceiveClosed, Ended
  <2>3. lock' \in {lock, {}, {w}}
    BY <1>4 DEF Unchanged, Wake, Park, ReceiveClosed
  <2>4. UNCHANGED <<producers, state, unseen, handle, joined, outcome, pauses, late>>
    BY <1>4 DEF Unchanged, Wake, Park, ReceiveClosed
  <2>5. TypeOK'
    BY <1>1, <2>1, <2>2, <2>3, <2>4, OtherMoves, Zenon DEF TypeOK
  <2>6. QED
    BY <2>1, <2>2, <2>5, OtherMoves DEF QueueInv
<1>5. CASE Receive(w)
  BY <1>5, ReceiveMoves
<1>6. CASE Handled(w)
  <2>1. /\ pc[w] = "handling" /\ "check" \in {"check"} \cup Ended /\ Goto(w, "check")
        /\ message' = [message EXCEPT ![w] = 0] /\ UNCHANGED <<channel, pushed>>
        /\ finished' = finished \cup {message[w]} /\ UNCHANGED lost /\ inflight' = inflight - 1
        /\ UNCHANGED <<producers, state, unseen, lock, handle, joined, outcome, pauses, late>>
    BY <1>6 DEF Handled
  <2>2. TypeOK'
    BY <1>1, <2>1, HandlerMoves, Zenon DEF TypeOK
  <2>3. QED
    BY <2>1, <2>2, HandlerMoves, Zenon DEF QueueInv
<1>7. CASE HandlerPanics(w)
  <2>1. /\ pc[w] = "handling" /\ "panicked" \in {"check"} \cup Ended /\ Goto(w, "panicked")
        /\ message' = [message EXCEPT ![w] = 0] /\ UNCHANGED <<channel, pushed>>
        /\ lost' = lost \cup {message[w]} /\ UNCHANGED finished /\ UNCHANGED inflight
        /\ UNCHANGED <<producers, state, unseen, lock, handle, joined, outcome, pauses, late>>
    BY <1>7 DEF HandlerPanics, Ended
  <2>2. TypeOK'
    BY <1>1, <2>1, HandlerMoves, Zenon DEF TypeOK
  <2>3. QED
    BY <2>1, <2>2, HandlerMoves, Zenon DEF QueueInv
<1>8. CASE Aborted(w)
  <2>1. /\ "aborted" \in {"check"} \cup Ended /\ Goto(w, "aborted")
        /\ "aborted" \in {"check", "paused", "select", "receive", "parked"} \cup Ended
        /\ message' = [message EXCEPT ![w] = 0] /\ UNCHANGED <<channel, pushed>>
        /\ UNCHANGED finished /\ UNCHANGED inflight /\ lock' = lock \ {w}
        /\ UNCHANGED <<producers, state, unseen, handle, joined, outcome, pauses, late>>
    BY <1>8 DEF Aborted, Ended
  <2>2. CASE pc[w] = "handling"
    <3>1. lost' = lost \cup {message[w]}
      BY <1>8, <2>2 DEF Aborted
    <3>2. TypeOK'
      BY <1>1, <2>1, <2>2, <3>1, HandlerMoves, Zenon DEF TypeOK
    <3>3. QED
      BY <2>1, <2>2, <3>1, <3>2, HandlerMoves, Zenon DEF QueueInv
  <2>3. CASE pc[w] # "handling"
    <3>1. lost' = lost
      BY <1>8, <2>3 DEF Aborted
    <3>2. TypeOK'
      BY <1>1, <2>1, <2>3, <3>1, OtherMoves, Zenon DEF TypeOK
    <3>3. QED
      BY <2>1, <2>3, <3>1, <3>2, OtherMoves, Zenon DEF QueueInv
  <2>4. QED
    BY <2>2, <2>3
<1>9. QED
  BY <1>2, <1>3, <1>4, <1>5, <1>6, <1>7, <1>8 DEF WorkerStep

\* So do those of the producers and of the owner of the handle.
LEMMA HandleKeeps ==
  ASSUME QueueInv,
         \/ DropProducers \/ Pause \/ Resume \/ Shutdown \/ Wait \/ Timeout \/ DropHandle
         \/ \E w \in Workers : JoinNext(w)
         \/ UNCHANGED vars
  PROVE  QueueInv'
<1>1. UNCHANGED <<channel, pushed, worker_vars>>
  BY DEF DropProducers, Pause, Resume, Shutdown, Wait, Timeout, DropHandle, JoinNext, vars,
         channel_vars
<1>2. Handling' = Handling /\ \A w \in Handling : message'[w] = message[w]
  BY <1>1 DEF worker_vars, Handling
<1>3. Placed' /\ Once' /\ Counted'
  BY <1>1, <1>2, Unmoved DEF QueueInv, worker_vars
<1>4. state' \in {"Running", "Paused", "Shutdown"} /\ unseen' \subseteq Workers /\ late' \subseteq Workers
  BY DEF DropProducers, Pause, Resume, Shutdown, Wait, Timeout, DropHandle, JoinNext, vars,
         SendState, QueueInv, TypeOK
<1>5. /\ handle' \in {"held", "draining", "drained", "waiting", "waited", "dropped"}
      /\ joined' \subseteq Workers
      /\ outcome' \in {"none", "Ok", "WorkerPanicked", "ShutdownTimeout"}
  BY DEF DropProducers, Pause, Resume, Shutdown, Wait, Timeout, DropHandle, JoinNext, vars,
         Return, handle_vars, QueueInv, TypeOK
<1>6. pauses' \in 0..MaxPauses
  BY QueueConfig DEF DropProducers, Pause, Resume, Shutdown, Wait, Timeout, DropHandle, JoinNext,
                     vars, handle_vars, QueueInv, TypeOK
<1>7. producers' \in BOOLEAN
  BY Zenon DEF DropProducers, Pause, Resume, Shutdown, Wait, Timeout, DropHandle, JoinNext, vars,
         channel_vars, QueueInv, TypeOK
<1>8. TypeOK'
  BY <1>1, <1>4, <1>5, <1>6, <1>7 DEF worker_vars, QueueInv, TypeOK
<1>9. QED
  BY <1>3, <1>8 DEF QueueInv

LEMMA InitQueue == Init => QueueInv
<1> SUFFICES ASSUME Init PROVE QueueInv
  OBVIOUS
<1>1. Handling = {} /\ channel = <<>> /\ finished = {} /\ lost = {} /\ pushed = 0 /\ inflight = 0
  BY DEF Init, Handling
<1>2. Cardinality({}) = 0 /\ Len(<<>>) = 0 /\ <<>> \in Seq(1..MaxMessages)
  BY FS_EmptySet, SeqEmpty
<1>3. TypeOK
  <2>1. lock = {} /\ producers = TRUE
    BY DEF Init
  <2>2. Len(channel) <= Capacity /\ Cardinality(lock) <= 1 /\ producers \in BOOLEAN
    BY <1>1, <1>2, <2>1, QueueConfig
  <2>3. QED
    BY <1>1, <1>2, <2>1, <2>2, QueueConfig DEF Init, TypeOK, Ended
<1>4. Placed /\ Once
  BY <1>1, <1>2 DEF Placed, Once, Accepted
<1>5. Counted
  BY <1>1, <1>2 DEF Counted
<1>6. QED
  BY <1>3, <1>4, <1>5 DEF QueueInv

LEMMA NextQueue == QueueInv /\ [Next]_vars => QueueInv'
BY PushMoves, WorkerKeeps, HandleKeeps DEF Next

\* Every type of the model, and with it: the channel holds at most its capacity, and one worker
\* at most the receiver's mutex.
THEOREM QueueTyped == Spec => []TypeOK
<1>1. QueueInv => TypeOK
  BY DEF QueueInv
<1>2. QED
  BY <1>1, InitQueue, NextQueue, PTL DEF Spec

-----------------------------------------------------------------------------
(* How the queue ends                                                      *)

\* A step of a worker: it leaves only a queue that stops or that is closed and empty, and what
\* has ended stays so.
LEMMA WorkerEnds ==
  ASSUME TypeOK, Ends, NEW w \in Workers, WorkerStep(w) \/ HandlerPanics(w) \/ Aborted(w)
  PROVE  Ends'
<1>1. /\ UNCHANGED <<producers, state, handle, joined, outcome>>
      /\ pc[w] \notin Ended /\ \A v \in Workers \ {w} : pc'[v] = pc[v]
  BY DEF WorkerStep, Check, Changed, Unchanged, Receive, ReceiveClosed, Park, Wake, Handled,
         HandlerPanics, Aborted, Goto, channel_vars, handle_vars, Ended, Alive, TypeOK
<1>2. channel' # channel => channel # <<>> /\ pc'[w] = "handling"
  BY DEF WorkerStep, Check, Changed, Unchanged, Receive, ReceiveClosed, Park, Wake, Handled,
         HandlerPanics, Aborted, Goto, channel_vars, TypeOK
<1>3. lost' # lost => pc'[w] \in {"panicked", "aborted"}
  BY DEF WorkerStep, Check, Changed, Unchanged, Receive, ReceiveClosed, Park, Wake, Handled,
         HandlerPanics, Aborted, Goto, TypeOK
<1>4. pc'[w] = "exited" => \/ state = "Shutdown" \/ SenderGone
                           \/ channel = <<>> /\ ~producers
  BY DEF WorkerStep, Check, Changed, Unchanged, Receive, ReceiveClosed, Park, Wake, Handled,
         HandlerPanics, Aborted, Goto, TypeOK
<1>5. ASSUME handle' \in {"held", "waiting"}
      PROVE  state' # "Shutdown" /\ \A v \in Workers : pc'[v] = "exited" => ~producers' /\ channel' = <<>>
  <2>1. handle \in {"held", "waiting"} /\ ~SenderGone /\ state # "Shutdown"
    BY <1>1, <1>5 DEF SenderGone, Ends
  <2>2. ASSUME NEW v \in Workers, pc'[v] = "exited" PROVE ~producers /\ channel = <<>>
    BY <1>1, <1>4, <2>1, <2>2 DEF Ends
  <2>3. QED
    BY <1>1, <1>2, <2>1, <2>2
<1>6. handle' \in {"held", "draining", "waiting"} => \A v \in joined' : pc'[v] = "exited"
  BY <1>1 DEF Ends, Ended, TypeOK
<1>7. handle' \in {"held", "draining", "waiting", "dropped"} => outcome' = "none"
  BY <1>1 DEF Ends
<1>8. lost' # {} => \E v \in Workers : pc'[v] \in {"panicked", "aborted"}
  BY <1>1, <1>3 DEF Ends, Ended
<1>9. outcome' # "Ok"
  BY <1>1 DEF Ends, Ended
<1>10. QED
  BY <1>5, <1>6, <1>7, <1>8, <1>9 DEF Ends

\* A join: shutdown and wait return Ok with the last worker, and only if all of them left.
LEMMA JoinEnds ==
  ASSUME TypeOK, Ends, NEW w \in Workers, JoinNext(w)
  PROVE  Ends'
<1>1. /\ UNCHANGED <<channel, producers, pc, lost>> /\ outcome = "none"
      /\ handle \in {"draining", "waiting"} /\ joined' = joined \cup {w}
      /\ pc[w] \in {"exited", "panicked"} /\ \A v \in joined : pc[v] = "exited"
  BY DEF JoinNext, Ends, channel_vars, worker_vars
<1>2. CASE pc[w] = "panicked"
  <2>1. handle' \in {"drained", "waited"} /\ outcome' = "WorkerPanicked"
    BY <1>1, <1>2 DEF JoinNext, Return
  <2>2. QED
    BY <1>1, <2>1 DEF Ends
<1>3. CASE pc[w] = "exited"
  <2>1. UNCHANGED state /\ IF joined' = Workers THEN Return("Ok") ELSE UNCHANGED <<handle, outcome>>
    BY <1>3 DEF JoinNext
  <2>2. CASE joined' = Workers
    <3>1. outcome' = "Ok" /\ handle' = IF handle = "draining" THEN "drained" ELSE "waited"
      BY <2>1, <2>2 DEF Return
    <3>2. \A v \in Workers : pc'[v] = "exited"
      BY <1>1, <1>3, <2>2
    <3>3. handle' = "waited" => channel' = <<>>
      BY <1>1, <1>3, <3>1 DEF Ends
    <3>4. QED
      BY <1>1, <3>1, <3>2, <3>3 DEF Ends
  <2>3. CASE joined' # Workers
    BY <1>1, <1>3, <2>1, <2>3 DEF Ends
  <2>4. QED
    BY <2>2, <2>3
<1>4. QED
  BY <1>1, <1>2, <1>3

LEMMA NextEnds == TypeOK /\ Ends /\ [Next]_vars => Ends'
<1> SUFFICES ASSUME TypeOK, Ends, [Next]_vars PROVE Ends'
  OBVIOUS
<1>1. CASE Push
  <2>1. producers /\ \E w \in Workers : pc[w] \notin Ended
    BY <1>1 DEF Push, Alive
  <2>2. UNCHANGED <<producers, state, pc, lost, handle, joined, outcome>>
    BY <1>1 DEF Push, worker_vars, handle_vars
  <2>3. outcome # "Ok"
    BY <2>1 DEF Ends, Ended
  <2>4. QED
    BY <2>1, <2>2, <2>3 DEF Ends
<1>2. CASE DropProducers \/ UNCHANGED vars
  <2>1. UNCHANGED <<channel, state, pc, lost, handle, joined, outcome>> /\ (producers' => producers)
    BY <1>2 DEF DropProducers, vars, channel_vars, worker_vars, handle_vars
  <2>2. QED
    BY <2>1 DEF Ends
<1>3. CASE Pause \/ Resume
  <2>1. UNCHANGED <<channel, producers, pc, lost, handle, joined, outcome>>
        /\ state' \in {"Running", "Paused"}
    BY <1>3 DEF Pause, Resume, SendState, channel_vars, worker_vars, handle_vars
  <2>2. QED
    BY <2>1 DEF Ends
<1>4. CASE Shutdown \/ Wait \/ Timeout \/ DropHandle
  <2>1. /\ UNCHANGED <<channel, producers, pc, lost, joined>> /\ outcome = "none"
        /\ handle \in {"held", "draining", "waiting"}
    BY <1>4 DEF Shutdown, Wait, Timeout, DropHandle, channel_vars, worker_vars, Ends
  <2>2. \/ handle' \in {"draining", "dropped"} /\ outcome' = "none"
        \/ handle = "held" /\ handle' = "waiting" /\ outcome' = "none" /\ state' = state
        \/ handle' = "drained" /\ outcome' = "ShutdownTimeout"
    BY <1>4, <2>1 DEF Shutdown, Wait, Timeout, DropHandle, Return
  <2>3. QED
    BY <2>1, <2>2 DEF Ends
<1>5. QED
  BY <1>1, <1>2, <1>3, <1>4, WorkerEnds, JoinEnds DEF Next

\* No accepted message is lost, doubled or forgotten by the inflight gauge, whatever workers and
\* owners do; shutdown and wait return Ok only when every worker has left worker_loop, and wait
\* only after every message was handled.
THEOREM MessagesAreKept == Spec => []MessagesKept
<1>1. Init => Ends
  BY DEF Init, Ends
<1>2. QueueInv /\ Ends => MessagesKept
  <2> SUFFICES ASSUME QueueInv, Ends PROVE MessagesAccounted /\ OkMeansDrained
    BY DEF MessagesKept
  <2>1. channel \in Seq(1..MaxMessages) /\ DOMAIN channel = 1..Len(channel)
    BY DEF QueueInv, TypeOK
  <2>2. MessagesAccounted
    BY <2>1, Zenon DEF QueueInv, Placed, Counted, MessagesAccounted, Accepted
  <2>3. OkMeansDrained
    <3> SUFFICES ASSUME outcome = "Ok", handle = "waited" PROVE finished = Accepted
      BY DEF OkMeansDrained, Ends, Accepted
    <3>1. Handling = {} /\ lost = {} /\ channel = <<>>
      BY DEF Ends, Handling
    <3>2. Len(channel) = 0
      BY <3>1
    <3>3. QED
      BY <3>1, <3>2 DEF QueueInv, Placed
  <2>4. QED
    BY <2>2, <2>3
<1>3. QueueInv => TypeOK
  BY DEF QueueInv
<1>4. QED
  BY <1>1, <1>2, <1>3, InitQueue, NextQueue, NextEnds, PTL DEF Spec

-----------------------------------------------------------------------------
(* How soon workers stop                                                   *)

LEMMA NextPrompt == TypeOK /\ Prompt /\ [Next]_vars => Prompt'
<1> SUFFICES ASSUME TypeOK, Prompt, [Next]_vars PROVE Prompt'
  OBVIOUS
<1>1. ASSUME NEW w \in Workers, WorkerStep(w) \/ HandlerPanics(w) \/ Aborted(w) PROVE Prompt'
  <2>1. state' = state /\ \A v \in Workers \ {w} : pc'[v] = pc[v]
    BY <1>1 DEF WorkerStep, Check, Changed, Unchanged, Receive, ReceiveClosed, Park, Wake, Handled,
                HandlerPanics, Aborted, Goto, TypeOK
  <2>2. late' = late \/ (late' = late \cup {w} /\ state # "Running" /\ pc'[w] = "handling")
    BY <1>1 DEF WorkerStep, Check, Changed, Unchanged, Receive, ReceiveClosed, Park, Wake, Handled,
                HandlerPanics, Aborted, Goto, TypeOK
  <2>3. w \in late => pc'[w] \in {"handling", "check", "paused"} \cup Ended
    BY <1>1 DEF WorkerStep, Check, Changed, Unchanged, Receive, ReceiveClosed, Park, Wake, Handled,
                HandlerPanics, Aborted, Goto, TypeOK, Prompt, Ended
  <2>4. QED
    BY <2>1, <2>2, <2>3 DEF Prompt, TypeOK
<1>2. CASE Pause \/ Resume \/ Shutdown
  BY <1>2 DEF Pause, Resume, Shutdown, SendState, worker_vars, Prompt
<1>3. ASSUME NEW w \in Workers, JoinNext(w) PROVE Prompt'
  <2>1. pc' = pc /\ (UNCHANGED <<state, late>> \/ SendState("Shutdown"))
    BY <1>3 DEF JoinNext, worker_vars
  <2>2. QED
    BY <2>1 DEF SendState, Prompt
<1>4. CASE Push \/ DropProducers \/ Wait \/ Timeout \/ DropHandle \/ UNCHANGED vars
  <2>1. UNCHANGED <<pc, state, late>>
    BY <1>4 DEF Push, DropProducers, Wait, Timeout, DropHandle, vars, worker_vars
  <2>2. QED
    BY <2>1 DEF Prompt
<1>5. QED
  BY <1>1, <1>2, <1>3, <1>4 DEF Next

\* After pause or shutdown was called a worker takes at most the message its select was already
\* polling for: it looks at the state before it polls again.
THEOREM WorkersStopPromptly == Spec => StopsPromptly
<1>1. Init => Prompt
  BY DEF Init, Prompt
<1>2. Prompt => [\A w \in Workers :
                   state # "Running" /\ pc[w] = "receive" /\ pc'[w] = "handling" => w \notin late]_vars
  BY DEF Prompt, Ended
<1>3. Spec => []Prompt
  BY <1>1, NextPrompt, QueueTyped, PTL DEF Spec
<1>4. QED
  BY <1>2, <1>3, PTL DEF StopsPromptly

-----------------------------------------------------------------------------
(* The dynamic configuration: once the updates have overlapped nothing is   *)
(* claimed of the snapshots, so the invariant follows the only update in    *)
(* progress.                                                                *)

CONSTANTS Updaters, Subscribers, Values, Invalid, MaxGeneration

\* A configuration has contents; those that do not parse are none.
ASSUME ContentsConfig == Values # {} /\ Invalid \notin Values /\ MaxGeneration \in Nat \ {0}

VARIABLES snapshot, generation, updates, config_pc, pending, seen, config_unseen, accepted, overlapped

Config == INSTANCE DynamicConfig WITH pc <- config_pc, unseen <- config_unseen
configVars == <<snapshot, generation, updates, config_pc, pending, seen, config_unseen,
  accepted, overlapped>>

\* Generations are handed out in order, each once.
Numbered == Config!GenerationIdentifies /\ \A x \in accepted : x.generation <= generation

\* Who has been told nothing new holds the channel's value.
CaughtUp == \A s \in Subscribers \ config_unseen : seen[s] = updates

\* The only update in progress carries the newest generation, until it has installed and then
\* published it.
InTurn ==
  /\ \A u, v \in Updaters : config_pc[u] # "idle" /\ config_pc[v] # "idle" => u = v
  /\ \A u \in Updaters : config_pc[u] = "install" => pending[u].generation = generation
  /\ \A u \in Updaters : config_pc[u] = "publish" => pending[u] = snapshot
  /\ (\A u \in Updaters : config_pc[u] # "install") => snapshot.generation = generation
  /\ (\A u \in Updaters : config_pc[u] = "idle") => updates = snapshot

ConfigInv == Config!TypeOK /\ Numbered /\ CaughtUp /\ (~overlapped => InTurn)

\* new leaves one generation, installed and published.
LEMMA InitConfig == Config!Init => ConfigInv
<1> SUFFICES ASSUME Config!Init PROVE ConfigInv
  OBVIOUS
<1>1. PICK v \in Values :
        LET first == [generation |-> 1, value |-> v]
        IN  /\ snapshot = first /\ generation = 1 /\ updates = first
            /\ config_pc = [u \in Updaters |-> "idle"]
            /\ pending = [u \in Updaters |-> first]
            /\ seen = [s \in Subscribers |-> first]
            /\ config_unseen = {}
            /\ accepted = {first} /\ overlapped = FALSE
  BY DEF Config!Init
<1>2. 1 \in 1..MaxGeneration
  BY ContentsConfig
<1>3. Config!TypeOK
  <2> DEFINE first == [generation |-> 1, value |-> v]
  <2>1. first \in Config!Snapshots
    BY <1>2 DEF Config!Snapshots
  <2>2. /\ snapshot = first /\ updates = first /\ pending = [u \in Updaters |-> first]
        /\ seen = [s \in Subscribers |-> first] /\ accepted = {first}
    BY <1>1
  <2> HIDE DEF first
  <2>3. QED
    BY <1>1, <1>2, <2>1, <2>2, Zenon DEF Config!TypeOK
<1>4. QED
  BY <1>1, <1>3 DEF ConfigInv, Numbered, Config!GenerationIdentifies, CaughtUp, InTurn

\* fetch_add hands out a generation that no accepted contents have.
LEMMA AssignConfig ==
  ASSUME ConfigInv, NEW u \in Updaters, NEW contents \in Values, Config!Assign(u, contents)
  PROVE  ConfigInv'
<1> DEFINE x == [generation |-> generation + 1, value |-> contents]
<1>1. /\ generation + 1 \in 1..MaxGeneration /\ x.generation = generation + 1
      /\ pending' = [pending EXCEPT ![u] = x] /\ accepted' = accepted \cup {x}
      /\ generation' = generation + 1 /\ generation \in Nat
  BY ContentsConfig DEF Config!Assign, ConfigInv, Config!TypeOK
<1>2. x \in Config!Snapshots
  BY <1>1 DEF Config!Snapshots
<1> HIDE DEF x
<1>3. Config!TypeOK'
  BY <1>1, <1>2 DEF Config!Assign, ConfigInv, Config!TypeOK
<1>4. Numbered'
  <2>1. \A y \in accepted : y.generation \in Nat /\ y.generation <= generation
    BY ContentsConfig DEF ConfigInv, Config!TypeOK, Config!Snapshots, Numbered
  <2>2. QED
    BY <1>1, <2>1 DEF ConfigInv, Numbered, Config!GenerationIdentifies
<1>5. CaughtUp'
  BY DEF Config!Assign, ConfigInv, CaughtUp
<1>6. ~overlapped' => InTurn'
  <2> SUFFICES ASSUME ~overlapped' PROVE InTurn'
    OBVIOUS
  <2>1. ~overlapped /\ \A v \in Updaters : config_pc[v] = "idle"
    BY Zenon DEF Config!Assign
  <2>2. config_pc'[u] = "install" /\ pending'[u] = x /\ \A v \in Updaters \ {u} : config_pc'[v] = "idle"
    BY <1>1, <2>1 DEF Config!Assign, ConfigInv, Config!TypeOK
  <2>3. QED
    BY <1>1, <2>2 DEF InTurn
<1>7. QED
  BY <1>3, <1>4, <1>5, <1>6 DEF ConfigInv

\* The other steps of update, and a subscriber's, accept nothing.
LEMMA NextConfig == ConfigInv /\ [Config!Next]_configVars => ConfigInv'
<1> SUFFICES ASSUME ConfigInv, [Config!Next]_configVars PROVE ConfigInv'
  OBVIOUS
<1> USE DEF ConfigInv, Config!TypeOK, Numbered, Config!GenerationIdentifies, CaughtUp, InTurn
<1>1. ASSUME NEW u \in Updaters, NEW contents \in Values \cup {Invalid}, Config!Assign(u, contents)
      PROVE  ConfigInv'
  BY <1>1, AssignConfig, Zenon DEF Config!Assign
<1>2. ASSUME NEW u \in Updaters, Config!Install(u) PROVE ConfigInv'
  BY <1>2 DEF Config!Install
<1>3. ASSUME NEW u \in Updaters, Config!Publish(u) PROVE ConfigInv'
  BY <1>3 DEF Config!Publish
<1>4. ASSUME NEW s \in Subscribers, Config!Observe(s) PROVE ConfigInv'
  BY <1>4 DEF Config!Observe
<1>5. CASE UNCHANGED configVars
  BY <1>5 DEF configVars
<1>6. QED
  BY <1>1, <1>2, <1>3, <1>4, <1>5 DEF Config!Next

\* The invariant is what the configuration promises.
LEMMA ConfigKeeps == ConfigInv => Config!UpdatesConverge
BY DEF ConfigInv, Numbered, CaughtUp, InTurn, Config!UpdatesConverge, Config!ConvergesInTurn

-----------------------------------------------------------------------------
(* The Redis subscription: what the queue does not report, the counter     *)
(* does.                                                                   *)

CONSTANTS Buffer, Endpoints, MaxReads, MaxBreaks, MaxFailures

\* start_subscription refuses a capacity below two and no urls.
ASSUME SubscriptionConfig ==
  /\ Buffer \in Nat /\ Buffer >= 2 /\ Endpoints \in Nat \ {0}
  /\ MaxReads \in Nat /\ MaxBreaks \in Nat /\ MaxFailures \in Nat

VARIABLES worker, subscription_index, queue, dropped, asked, receiver, read, breaks, failures, expect,
  closed

Subscription == INSTANCE RedisSubscription WITH
  Capacity <- Buffer, MaxMessages <- MaxReads, index <- subscription_index
subscriptionVars == <<worker, subscription_index, queue, dropped, asked, receiver, read, breaks,
  failures, expect, closed>>

Events == [kind : {"Message", "Lagged", "Disconnected", "Reconnected", "Closed"}, n : Nat]

\* The number due once event e has been delivered to who is due d.
DueAfter(e, d) == CASE e.kind = "Message" -> e.n + 1
                    [] e.kind = "Lagged"  -> d + e.n
                    [] OTHER -> d

\* The numbers due along the queue q, from the one that is due now to the one due after it.
Follows(q, due, first, last) ==
  /\ due \in [1..(Len(q) + 1) -> Nat] /\ due[1] = first /\ due[Len(q) + 1] = last
  /\ \A i \in 1..Len(q) : /\ q[i].kind = "Message" => q[i].n = due[i]
                          /\ due[i + 1] = DueAfter(q[i], due[i])
Due(q, first, last) == \E due \in [1..(Len(q) + 1) -> Nat] : Follows(q, due, first, last)

SubscriptionTyped ==
  /\ queue \in Seq(Events) /\ dropped \in Nat /\ read \in Nat /\ expect \in Nat
  /\ dropped <= read

\* What the queue does not report to a receiver that is still there, the counter does.
Reported == IF receiver = "dropped" THEN queue = <<>> ELSE Due(queue, expect, read + 1 - dropped)

SubscriptionInv ==
  Subscription!TypeOK /\ SubscriptionTyped /\ Reported /\ Subscription!ClosedBeforeEof

\* An event at the end of the queue moves the number due after it.
LEMMA DueAppend ==
  ASSUME NEW q \in Seq(Events), NEW first \in Nat, NEW last \in Nat, Due(q, first, last),
         NEW e \in Events, e.kind = "Message" => e.n = last
  PROVE  Append(q, e) \in Seq(Events) /\ Due(Append(q, e), first, DueAfter(e, last))
<1> DEFINE r == Append(q, e)
<1>1. PICK due \in [1..(Len(q) + 1) -> Nat] : Follows(q, due, first, last)
  BY DEF Due
<1>2. /\ r \in Seq(Events) /\ Len(r) = Len(q) + 1 /\ r[Len(q) + 1] = e
      /\ \A i \in 1..Len(q) : r[i] = q[i]
  BY SeqAppend
<1>3. Len(q) \in Nat
  BY SeqLength
<1> DEFINE more == [i \in 1..(Len(q) + 2) |-> IF i = Len(q) + 2 THEN DueAfter(e, last) ELSE due[i]]
<1> HIDE DEF r
<1>4. DueAfter(e, last) \in Nat
  BY DEF DueAfter, Events
<1>5. /\ \A i \in 1..(Len(q) + 1) : more[i] = due[i] /\ due[i] \in Nat
      /\ more[Len(q) + 2] = DueAfter(e, last) /\ more \in [1..(Len(q) + 2) -> Nat]
  BY <1>1, <1>3, <1>4
<1> HIDE DEF more
<1>6. due[1] = first /\ due[Len(q) + 1] = last
  BY <1>1 DEF Follows
<1>7. ASSUME NEW i \in 1..Len(r)
      PROVE  /\ r[i].kind = "Message" => r[i].n = more[i]
             /\ more[i + 1] = DueAfter(r[i], more[i])
  <2>1. CASE i \in 1..Len(q)
    <3>1. i \in 1..(Len(q) + 1) /\ i + 1 \in 1..(Len(q) + 1)
      BY <1>3, <2>1
    <3>2. r[i] = q[i] /\ more[i] = due[i] /\ more[i + 1] = due[i + 1]
      BY <1>2, <1>5, <2>1, <3>1
    <3>3. (q[i].kind = "Message" => q[i].n = due[i]) /\ due[i + 1] = DueAfter(q[i], due[i])
      BY <1>1, <2>1 DEF Follows
    <3>4. QED
      BY <3>2, <3>3
  <2>2. CASE i = Len(q) + 1
    <3>1. more[i] = last /\ more[i + 1] = DueAfter(e, last) /\ r[i] = e
      BY <1>2, <1>3, <1>5, <1>6, <2>2
    <3>2. QED
      BY <3>1
  <2>3. QED
    BY <1>2, <1>3, <1>7, <2>1, <2>2
<1>8. more \in [1..(Len(r) + 1) -> Nat] /\ more[1] = first /\ more[Len(r) + 1] = DueAfter(e, last)
  BY <1>2, <1>3, <1>5, <1>6
<1>9. Due(r, first, DueAfter(e, last))
  BY <1>7, <1>8 DEF Due, Follows
<1>10. QED
  BY <1>2, <1>9 DEF r

\* The receiver that takes the first event is due what that event makes it.
LEMMA DueTail ==
  ASSUME NEW q \in Seq(Events), q # <<>>, NEW first \in Nat, NEW last \in Nat, Due(q, first, last)
  PROVE  /\ Tail(q) \in Seq(Events) /\ Len(Tail(q)) = Len(q) - 1 /\ Len(q) \in Nat \ {0}
         /\ Head(q).kind = "Message" => Head(q).n = first
         /\ DueAfter(Head(q), first) \in Nat
         /\ Due(Tail(q), DueAfter(Head(q), first), last)
<1> DEFINE r == Tail(q)
<1>1. PICK due \in [1..(Len(q) + 1) -> Nat] : Follows(q, due, first, last)
  BY DEF Due
<1>2. /\ r \in Seq(Events) /\ Len(r) = Len(q) - 1 /\ Head(q) = q[1]
      /\ Head(q) \in Events /\ \A i \in 1..Len(r) : r[i] = q[i + 1]
  BY SeqTail
<1>3. Len(q) \in Nat /\ Len(q) # 0
  BY SeqLength, SeqEmpty
<1> DEFINE less == [i \in 1..Len(q) |-> due[i + 1]]
<1> HIDE DEF r
<1>4. \A i \in 1..Len(q) : less[i] = due[i + 1] /\ due[i + 1] \in Nat
  BY <1>1, <1>3
<1>5. less \in [1..Len(q) -> Nat]
  BY <1>4
<1> HIDE DEF less
<1>6. /\ due[1] = first /\ due[Len(q) + 1] = last
      /\ \A i \in 1..Len(q) : (q[i].kind = "Message" => q[i].n = due[i]) /\ due[i + 1] = DueAfter(q[i], due[i])
  BY <1>1 DEF Follows
<1>7. ASSUME NEW i \in 1..Len(r)
      PROVE  /\ r[i].kind = "Message" => r[i].n = less[i]
             /\ less[i + 1] = DueAfter(r[i], less[i])
  <2>1. i \in 1..Len(q) /\ i + 1 \in 1..Len(q)
    BY <1>2, <1>3, <1>7
  <2>2. r[i] = q[i + 1] /\ less[i] = due[i + 1] /\ less[i + 1] = due[i + 1 + 1]
    BY <1>2, <1>4, <1>7, <2>1
  <2>3. QED
    BY <1>6, <2>1, <2>2
<1>8. 1 \in 1..Len(q) /\ Len(r) + 1 = Len(q) /\ Len(q) \in 1..Len(q)
  BY <1>2, <1>3
<1>9. less[1] = due[2] /\ less[Len(q)] = last
  BY <1>4, <1>6, <1>8
<1>10. due[2] = DueAfter(q[1], first) /\ due[2] \in Nat
  BY <1>4, <1>6, <1>8
<1>11. Due(r, due[2], last)
  BY <1>5, <1>7, <1>8, <1>9, Zenon DEF Due, Follows
<1>12. QED
  BY <1>2, <1>3, <1>6, <1>8, <1>10, <1>11 DEF r

\* A subscription starts with an empty queue and the first message due.
LEMMA InitSubscription == Subscription!Init => SubscriptionInv
<1> SUFFICES ASSUME Subscription!Init PROVE SubscriptionInv
  OBVIOUS
<1>1. /\ queue = <<>> /\ dropped = 0 /\ read = 0 /\ expect = 1 /\ receiver = "open" /\ worker = "reading"
      /\ subscription_index \in 0..(Endpoints - 1)
  BY DEF Subscription!Init
<1>2. queue \in Seq(Events) /\ Len(queue) = 0
  BY <1>1
<1>3. Due(queue, 1, 1)
  <2>1. Follows(queue, [i \in 1..1 |-> 1], 1, 1)
    BY <1>2 DEF Follows
  <2>2. QED
    BY <1>2, <2>1, Zenon DEF Due, Follows
<1>4. QED
  BY <1>1, <1>2, <1>3, SubscriptionConfig DEF SubscriptionInv, Subscription!TypeOK, Subscription!Sending,
    SubscriptionTyped, Reported, Subscription!ClosedBeforeEof

\* Who touches neither the queue nor a counter reports as before.
LEMMA StillReported ==
  ASSUME SubscriptionTyped, Reported, UNCHANGED <<queue, dropped, read, expect>>,
         receiver' = "dropped" <=> receiver = "dropped"
  PROVE  SubscriptionTyped' /\ Reported'
BY DEF SubscriptionTyped, Reported

\* A message that is read is queued, behind the count of those that were not, or counted itself.
LEMMA ReadReports ==
  ASSUME SubscriptionInv, Subscription!ReadMessage
  PROVE  SubscriptionTyped' /\ Reported' /\ Len(queue') <= Buffer
<1> DEFINE last == read + 1 - dropped
           lag == Subscription!Event("Lagged", dropped)
           msg == Subscription!Event("Message", read + 1)
<1>1. /\ queue \in Seq(Events) /\ dropped \in Nat /\ read \in Nat /\ expect \in Nat
      /\ dropped <= read /\ last \in Nat /\ Len(queue) <= Buffer /\ Len(queue) \in Nat /\ Buffer \in Nat
      /\ read' = read + 1 /\ expect' = expect /\ receiver' = receiver
  BY SubscriptionConfig, SeqLength DEF SubscriptionInv, SubscriptionTyped, Subscription!TypeOK, Subscription!ReadMessage
<1>2. /\ lag \in Events /\ lag.kind = "Lagged" /\ DueAfter(lag, last) = read + 1
      /\ msg \in Events /\ msg.kind = "Message" /\ msg.n = read + 1
      /\ \A d : DueAfter(msg, d) = read + 2
  BY <1>1 DEF Subscription!Event, Events, DueAfter
<1>3. receiver # "dropped" => Due(queue, expect, last)
  BY DEF SubscriptionInv, Reported
<1>4. receiver = "dropped" => queue = <<>>
  BY DEF SubscriptionInv, Reported
<1>5. \/ queue' = queue /\ dropped' = dropped + 1
      \/ /\ receiver # "dropped" /\ Len(queue) < Buffer /\ dropped = 0 /\ dropped' = 0
         /\ queue' = Append(queue, msg)
      \/ /\ receiver # "dropped" /\ Len(queue) < Buffer /\ dropped' = 1
         /\ queue' = Append(queue, lag)
      \/ /\ receiver # "dropped" /\ Len(queue) < Buffer /\ dropped' = 0
         /\ queue' = Append(Append(queue, lag), msg) /\ Len(Append(queue, lag)) < Buffer
  BY <1>1 DEF Subscription!ReadMessage, Subscription!enqueue_subscription_message, Subscription!Room
<1> HIDE DEF lag, msg, last
<1>6. CASE queue' = queue /\ dropped' = dropped + 1
  <2>1. read' + 1 - dropped' = last
    BY <1>1, <1>6 DEF last
  <2>2. Reported'
    BY <1>1, <1>3, <1>4, <1>6, <2>1 DEF Reported
  <2>3. QED
    BY <1>1, <1>6, <2>2 DEF SubscriptionTyped
<1>7. CASE /\ receiver # "dropped" /\ Len(queue) < Buffer /\ dropped = 0 /\ dropped' = 0
           /\ queue' = Append(queue, msg)
  <2>1. last = read + 1 /\ read' + 1 - dropped' = read + 2 /\ read + 2 \in Nat
    BY <1>1, <1>7 DEF last
  <2>2. Append(queue, msg) \in Seq(Events) /\ Due(Append(queue, msg), expect, DueAfter(msg, last))
    BY <1>1, <1>2, <1>3, <1>7, <2>1, DueAppend
  <2>3. Len(queue') = Len(queue) + 1
    BY <1>1, <1>2, <1>7, SeqAppend
  <2>4. Due(queue', expect', read' + 1 - dropped')
    BY <1>1, <1>2, <1>7, <2>1, <2>2
  <2>5. QED
    BY <1>1, <1>7, <2>2, <2>3, <2>4 DEF SubscriptionTyped, Reported
<1>8. CASE /\ receiver # "dropped" /\ Len(queue) < Buffer /\ dropped' = 1
           /\ queue' = Append(queue, lag)
  <2>1. read' + 1 - dropped' = read + 1
    BY <1>1, <1>8
  <2>2. Append(queue, lag) \in Seq(Events) /\ Due(Append(queue, lag), expect, DueAfter(lag, last))
    BY <1>1, <1>2, <1>3, <1>8, DueAppend
  <2>3. Len(queue') = Len(queue) + 1
    BY <1>1, <1>2, <1>8, SeqAppend
  <2>4. Due(queue', expect', read' + 1 - dropped')
    BY <1>1, <1>2, <1>8, <2>1, <2>2
  <2>5. QED
    BY <1>1, <1>8, <2>2, <2>3, <2>4 DEF SubscriptionTyped, Reported
<1>9. CASE /\ receiver # "dropped" /\ Len(queue) < Buffer /\ dropped' = 0
           /\ queue' = Append(Append(queue, lag), msg) /\ Len(Append(queue, lag)) < Buffer
  <2>1. read' + 1 - dropped' = read + 2 /\ read + 1 \in Nat
    BY <1>1, <1>9
  <2>2. Append(queue, lag) \in Seq(Events) /\ Due(Append(queue, lag), expect, read + 1)
    BY <1>1, <1>2, <1>3, <1>9, DueAppend
  <2>3. /\ Append(Append(queue, lag), msg) \in Seq(Events)
        /\ Due(Append(Append(queue, lag), msg), expect, DueAfter(msg, read + 1))
    BY <1>1, <1>2, <2>1, <2>2, DueAppend, Zenon
  <2>4. Len(queue') = Len(Append(queue, lag)) + 1 /\ Len(Append(queue, lag)) \in Nat
    BY <1>2, <1>9, <2>2, SeqAppend, SeqLength
  <2>5. Due(queue', expect', read' + 1 - dropped')
    BY <1>1, <1>2, <1>9, <2>1, <2>3
  <2>6. QED
    BY <1>1, <1>9, <2>3, <2>4, <2>5 DEF SubscriptionTyped, Reported
<1>10. QED
  BY <1>5, <1>6, <1>7, <1>8, <1>9

\* An event of the task reports the count, or carries no number.
LEMMA SendReports ==
  ASSUME SubscriptionInv, Subscription!SendEvent
  PROVE  SubscriptionTyped' /\ Reported' /\ Len(queue') <= Buffer
<1> DEFINE last == read + 1 - dropped
           e == Subscription!Event(Subscription!EventOf[worker], IF worker = "lagged" THEN dropped ELSE 0)
<1>1. /\ queue \in Seq(Events) /\ dropped \in Nat /\ read \in Nat /\ expect \in Nat
      /\ dropped <= read /\ last \in Nat /\ Len(queue) <= Buffer /\ Len(queue) \in Nat /\ Buffer \in Nat
      /\ read' = read /\ expect' = expect /\ receiver' = receiver
  BY SubscriptionConfig, SeqLength DEF SubscriptionInv, SubscriptionTyped, Subscription!TypeOK, Subscription!SendEvent
<1>2. CASE receiver = "dropped" /\ UNCHANGED <<queue, dropped>>
  BY <1>1, <1>2, StillReported DEF SubscriptionInv
<1>3. CASE /\ receiver # "dropped" /\ Len(queue) < Buffer /\ queue' = Append(queue, e)
           /\ dropped' = IF worker = "lagged" THEN 0 ELSE dropped
  <2>1. worker \in {"lagged", "disconnected", "reconnected", "closed"}
    BY DEF Subscription!SendEvent, Subscription!Sending
  <2>2. /\ e \in Events /\ e.kind # "Message"
        /\ DueAfter(e, last) = read' + 1 - dropped' /\ dropped' \in Nat /\ dropped' <= read'
    BY <1>1, <1>3, <2>1 DEF Subscription!Event, Subscription!EventOf, Events, DueAfter
  <2> HIDE DEF e, last
  <2>3. Due(queue, expect, last)
    BY <1>3 DEF SubscriptionInv, Reported, last
  <2>4. Append(queue, e) \in Seq(Events) /\ Due(Append(queue, e), expect, DueAfter(e, last))
    BY <1>1, <2>2, <2>3, DueAppend
  <2>5. Len(queue') = Len(queue) + 1
    BY <1>1, <1>3, <2>2, SeqAppend
  <2>6. QED
    BY <1>1, <1>3, <2>2, <2>4, <2>5 DEF SubscriptionTyped, Reported
<1>4. QED
  BY <1>2, <1>3 DEF Subscription!SendEvent, Subscription!Room

\* connect_subscription finds an endpoint that is configured.
LEMMA ConnectIndex ==
  ASSUME NEW up, subscription_index \in 0..(Endpoints - 1), NEW i \in Subscription!connect_subscription(up)
  PROVE  i \in 0..(Endpoints - 1)
<1>1. \A n \in Nat : n % Endpoints \in 0..(Endpoints - 1)
  BY SubscriptionConfig
<1>2. subscription_index + 1 \in Nat /\ (subscription_index + 1) % Endpoints \in Nat
  BY <1>1, SubscriptionConfig
<1>3. \A offset \in 0..(Endpoints - 1) : ((subscription_index + 1) % Endpoints) + offset \in Nat
  BY <1>2, SubscriptionConfig
<1>4. \A offset \in 0..(Endpoints - 1) :
        (((subscription_index + 1) % Endpoints) + offset) % Endpoints \in 0..(Endpoints - 1)
  BY <1>1, <1>3
<1>5. QED
  BY <1>4, Zenon DEF Subscription!connect_subscription, Subscription!Order

\* No step of the task or of its receiver loses count.
LEMMA NextSubscription == SubscriptionInv /\ [Subscription!Next]_subscriptionVars => SubscriptionInv'
<1> SUFFICES ASSUME SubscriptionInv, [Subscription!Next]_subscriptionVars PROVE SubscriptionInv'
  OBVIOUS
<1> USE DEF SubscriptionInv
<1>1. CASE Subscription!ReadMessage
  <2>1. SubscriptionTyped' /\ Reported' /\ Len(queue') <= Buffer
    BY <1>1, ReadReports
  <2>2. read' \in 0..MaxReads /\ dropped' \in 0..MaxReads
    BY <1>1, <2>1, SubscriptionConfig DEF SubscriptionTyped, Subscription!ReadMessage
  <2>3. QED
    BY <1>1, <2>1, <2>2 DEF Subscription!ReadMessage, Subscription!TypeOK, Subscription!ClosedBeforeEof
<1>2. CASE Subscription!SendEvent
  <2>1. SubscriptionTyped' /\ Reported' /\ Len(queue') <= Buffer
    BY <1>2, SendReports
  <2>2. read' = read /\ read' \in 0..MaxReads /\ dropped' \in 0..MaxReads
    BY <1>2, <2>1, SubscriptionConfig DEF SubscriptionTyped, Subscription!SendEvent, Subscription!TypeOK
  <2>3. /\ worker' \in {"reading", "sleeping", "connecting", "done"} \cup Subscription!Sending
        /\ worker' = "done" /\ receiver # "dropped" => closed'
    <3>1. \/ receiver = "dropped" /\ worker' = "done"
          \/ worker' = Subscription!After[worker] /\ closed' = (worker = "closed")
      BY <1>2 DEF Subscription!SendEvent
    <3>2. \/ worker = "lagged" /\ Subscription!After[worker] = "disconnected"
          \/ worker = "disconnected" /\ Subscription!After[worker] = "sleeping"
          \/ worker = "reconnected" /\ Subscription!After[worker] = "reading"
          \/ worker = "closed" /\ Subscription!After[worker] = "done"
      BY <1>2 DEF Subscription!SendEvent, Subscription!Sending, Subscription!After
    <3>3. worker = "closed" => (closed' <=> TRUE) \/ receiver = "dropped"
      BY <3>1, Zenon
    <3>4. QED
      BY <3>1, <3>2, <3>3 DEF Subscription!Sending
  <2>4. UNCHANGED <<subscription_index, receiver>>
    BY <1>2 DEF Subscription!SendEvent
  <2>5. QED
    BY <2>1, <2>2, <2>3, <2>4 DEF Subscription!TypeOK, Subscription!ClosedBeforeEof
<1>3. CASE Subscription!Disconnect \/ Subscription!Slept \/ Subscription!TakeShutdown \/ Subscription!ReceiverGone
  <2>1. /\ UNCHANGED <<subscription_index, queue, dropped, receiver, read, expect, closed>>
        /\ worker' \in {"lagged", "disconnected", "connecting", "closed", "done"}
        /\ worker' = "done" => receiver = "dropped"
    BY <1>3 DEF Subscription!Disconnect, Subscription!Slept, Subscription!TakeShutdown, Subscription!ReceiverGone
  <2>2. QED
    BY <2>1, StillReported DEF Subscription!TypeOK, Subscription!Sending, Subscription!ClosedBeforeEof
<1>4. CASE \E up \in SUBSET (0..(Endpoints - 1)) : Subscription!Connect(up)
  <2>1. PICK up \in SUBSET (0..(Endpoints - 1)) : Subscription!Connect(up)
    BY <1>4
  <2>2. /\ UNCHANGED <<queue, dropped, receiver, read, expect, closed>>
        /\ worker' \in {"reconnected", "disconnected"}
        /\ subscription_index' \in Subscription!connect_subscription(up) \cup {subscription_index}
    BY <2>1 DEF Subscription!Connect
  <2>3. subscription_index' \in 0..(Endpoints - 1)
    BY <2>2, ConnectIndex DEF Subscription!TypeOK
  <2>4. QED
    BY <2>2, <2>3, StillReported DEF Subscription!TypeOK, Subscription!Sending, Subscription!ClosedBeforeEof
<1>5. CASE Subscription!recv
  <2>1. /\ receiver # "dropped" /\ queue # <<>> /\ queue' = Tail(queue)
        /\ expect' = DueAfter(Head(queue), expect)
        /\ UNCHANGED <<worker, subscription_index, dropped, receiver, read, closed>>
    BY <1>5 DEF Subscription!recv, DueAfter
  <2>2. queue \in Seq(Events) /\ expect \in Nat /\ read + 1 - dropped \in Nat /\ Due(queue, expect, read + 1 - dropped)
    BY <2>1 DEF SubscriptionTyped, Reported
  <2>3. /\ queue' \in Seq(Events) /\ Len(queue') = Len(queue) - 1 /\ Len(queue) \in Nat \ {0}
        /\ expect' \in Nat /\ Due(queue', expect', read + 1 - dropped)
    BY <2>1, <2>2, DueTail
  <2>4. Len(queue') <= Buffer
    BY <2>3, SubscriptionConfig DEF Subscription!TypeOK
  <2>5. SubscriptionTyped' /\ Reported'
    BY <2>1, <2>3 DEF SubscriptionTyped, Reported
  <2>6. QED
    BY <2>1, <2>4, <2>5 DEF Subscription!TypeOK, Subscription!ClosedBeforeEof
<1>6. CASE Subscription!shutdown \/ Subscription!close
  <2>1. /\ UNCHANGED <<worker, subscription_index, queue, dropped, read, expect, closed>>
        /\ receiver = "open" /\ receiver' \in {"open", "closing"}
    BY <1>6 DEF Subscription!shutdown, Subscription!close
  <2>2. QED
    BY <2>1, StillReported DEF Subscription!TypeOK, Subscription!ClosedBeforeEof
<1>7. CASE Subscription!drop
  <2>1. /\ UNCHANGED <<worker, subscription_index, dropped, read, expect, closed>>
        /\ receiver' = "dropped" /\ queue' = <<>>
    BY <1>7 DEF Subscription!drop
  <2>2. queue' \in Seq(Events) /\ Len(queue') = 0
    BY <2>1
  <2>3. QED
    BY <2>1, <2>2, SubscriptionConfig DEF Subscription!TypeOK, SubscriptionTyped, Reported, Subscription!ClosedBeforeEof
<1>8. CASE UNCHANGED subscriptionVars
  <2>1. UNCHANGED <<worker, subscription_index, queue, dropped, receiver, read, expect, closed>>
    BY <1>8 DEF subscriptionVars
  <2>2. QED
    BY <2>1, StillReported DEF Subscription!TypeOK, Subscription!ClosedBeforeEof
<1>9. QED
  BY <1>1, <1>2, <1>3, <1>4, <1>5, <1>6, <1>7, <1>8 DEF Subscription!Next, Subscription!Worker

\* The number at the head of the queue is the one due.
LEMMA SubscriptionHead == SubscriptionInv => Subscription!NoSilentGap
<1> SUFFICES ASSUME SubscriptionInv, queue # <<>>, Head(queue).kind = "Message"
             PROVE  Head(queue).n = expect
  BY DEF Subscription!NoSilentGap
<1>1. queue \in Seq(Events) /\ expect \in Nat /\ read + 1 - dropped \in Nat /\ Due(queue, expect, read + 1 - dropped)
  BY DEF SubscriptionInv, SubscriptionTyped, Reported
<1>2. QED
  BY <1>1, DueTail

-----------------------------------------------------------------------------
(* The service group                                                       *)

CONSTANTS Services, WithSignal

ASSUME GroupConfig == IsFiniteSet(Services) /\ WithSignal \in BOOLEAN

VARIABLES shutdown, group_unseen, task, group_joined, signal, group_pc, service_count, first_error,
  group_outcome, early

Group == INSTANCE ServiceGroup WITH
  unseen <- group_unseen, joined <- group_joined, pc <- group_pc, outcome <- group_outcome
groupVars == <<shutdown, group_unseen, task, group_joined, signal, group_pc, service_count,
  first_error, group_outcome, early>>

Live == group_pc \in {"started", "waiting", "draining"}

\* A task is aborted by the return of the supervisor and by nothing else, and none runs on after
\* it; what was joined and did not return Ok has left an error behind.
Supervised ==
  /\ group_unseen => shutdown
  /\ Live => group_outcome = <<"None">> /\ \A s \in Services : task[s] # "aborted"
  /\ ~Live => \A s \in Services : task[s] # "running"
  /\ \A s \in group_joined : task[s] # "Ok" => first_error # {}

GroupInv ==
  Group!TypeOK /\ Supervised /\ Group!SiblingsAsked /\ Group!OkMeansClean /\ Group!TimeoutCounts

\* A group that has not returned reports no end.
LEMMA NoneIsNoEnd == <<"None">>[1] # "ShutdownTimeout" /\ <<"None">> # <<"Ok">>
OBVIOUS

\* The group counts as FiniteSets does.
LEMMA GroupCounts == \A S : Group!Cardinality(S) = Cardinality(S)
<1>1. \A S : Group!IsFiniteSet(S) <=> IsFiniteSet(S)
  BY DEF Group!IsFiniteSet, IsFiniteSet
<1>2. QED
  BY <1>1 DEF Group!Cardinality, Cardinality

\* start leaves every service running and nothing to report.
LEMMA InitGroup == Group!Init => GroupInv
<1> SUFFICES ASSUME Group!Init PROVE GroupInv
  OBVIOUS
<1>1. IsFiniteSet(Services) /\ Services \ {} = Services /\ Cardinality({}) = 0
  BY GroupConfig, FS_EmptySet
<1>2. Cardinality(Services) \in Nat
  BY <1>1, FS_CardinalityType
<1>3. Group!TypeOK
  <2>1. /\ Group!Cardinality(first_error) = 0 /\ service_count = Group!Cardinality(Services \ group_joined)
        /\ first_error = {} /\ group_joined = {}
    BY <1>1, GroupCounts, Zenon DEF Group!Init
  <2>2. <<"None">> \in Group!Outcomes
    BY Zenon DEF Group!Outcomes
  <2>3. Group!Cardinality(first_error) <= 1
    BY <2>1
  <2>4. /\ shutdown \in BOOLEAN /\ group_unseen \in BOOLEAN /\ early \subseteq Services
        /\ task \in [Services -> {"running", "aborted"} \cup Group!Ended]
    BY Zenon DEF Group!Init
  <2>5. /\ group_joined \subseteq {s \in Services : task[s] \in Group!Ended}
        /\ signal \in {"listening", "received", "failed"}
        /\ group_pc \in {"started", "waiting", "draining", "returned"}
    BY Zenon DEF Group!Init
  <2>6. QED
    BY <2>1, <2>2, <2>3, <2>4, <2>5, Zenon DEF Group!Init, Group!TypeOK
<1>4. QED
  BY <1>3 DEF Group!Init, GroupInv, Supervised, Live, Group!SiblingsAsked, Group!OkMeansClean,
    Group!TimeoutCounts

\* Joining a service that has ended leaves one less.
LEMMA JoinCounts ==
  ASSUME Group!TypeOK, NEW s \in Group!Joinable
  PROVE  /\ group_joined \cup {s} \subseteq {t \in Services : task[t] \in Group!Ended}
         /\ service_count - 1 = Cardinality(Services \ (group_joined \cup {s}))
         /\ {Group!ErrorOf(s)} \in SUBSET Group!Errors /\ Cardinality({Group!ErrorOf(s)}) = 1
<1>1. s \in Services \ group_joined /\ task[s] \in Group!Ended /\ IsFiniteSet(Services \ group_joined)
  BY GroupConfig, FS_Subset DEF Group!Joinable
<1>2. Services \ (group_joined \cup {s}) = (Services \ group_joined) \ {s}
  OBVIOUS
<1>3. Cardinality((Services \ group_joined) \ {s}) = Cardinality(Services \ group_joined) - 1
  BY <1>1, FS_RemoveElement, Zenon
<1>4. Group!ErrorOf(s) \in Group!Errors
  BY <1>1 DEF Group!ErrorOf, Group!Errors, Group!Ended
<1>5. Cardinality({Group!ErrorOf(s)}) = 1
  BY FS_Singleton, Zenon
<1>6. QED
  BY <1>1, <1>2, <1>3, <1>4, <1>5, GroupCounts DEF Group!TypeOK

\* What the supervisor returns: the timeout counts the tasks that it aborts, Ok is the end of
\* services that all returned Ok.
LEMMA ReturnGroup ==
  ASSUME GroupInv, group_pc = "draining", Group!Drained \/ Group!Timeout
  PROVE  GroupInv'
<1>1. IsFiniteSet(Services \ group_joined) /\ Cardinality(Services \ group_joined) \in Nat
      /\ Cardinality(Services) \in Nat
      /\ Cardinality(Services \ group_joined) <= Cardinality(Services)
  BY GroupConfig, FS_Subset, FS_CardinalityType
<1>2. first_error # {} => (CHOOSE e \in first_error : TRUE) \in Group!Errors
  BY DEF GroupInv, Group!TypeOK
<1>3. ASSUME NEW e \in Group!Errors
      PROVE  e \in Group!Outcomes /\ e[1] # "ShutdownTimeout" /\ e[1] # "Ok"
  BY <1>3 DEF Group!Errors, Group!Outcomes
<1>4. /\ group_pc' = "returned" /\ task' = [s \in Services |-> IF task[s] = "running" THEN "aborted" ELSE task[s]]
      /\ UNCHANGED <<shutdown, group_unseen, group_joined, signal, service_count, first_error, early>>
  BY DEF Group!Drained, Group!Timeout, Group!Return
<1>5. /\ task \in [Services -> {"running", "aborted"} \cup Group!Ended]
      /\ \A s \in Services : task[s] # "aborted"
      /\ group_joined \subseteq {s \in Services : task[s] \in Group!Ended}
      /\ service_count = Cardinality(Services \ group_joined)
  BY GroupCounts DEF GroupInv, Group!TypeOK, Supervised, Live
<1>6. \A s \in Services : /\ task[s] \in Group!Ended => task'[s] = task[s]
                          /\ task'[s] \in {"aborted"} \cup Group!Ended
                          /\ task'[s] = "aborted" => task[s] = "running"
  BY <1>4, <1>5 DEF Group!Ended
<1>7. group_outcome' \in Group!Outcomes
  <2>1. <<"Ok">> \in Group!Outcomes /\ <<"Signal">> \in Group!Outcomes
    BY Zenon DEF Group!Outcomes
  <2>2. service_count \in 0..Group!Cardinality(Services)
    BY <1>1, <1>5, GroupCounts
  <2>3. <<"ShutdownTimeout", service_count>> \in Group!Outcomes
    BY <2>2, Zenon DEF Group!Outcomes
  <2>4. QED
    BY <1>2, <1>3, <2>1, <2>3, Zenon DEF Group!Drained, Group!Timeout, Group!Return
<1>8. Group!TypeOK'
  BY <1>4, <1>5, <1>6, <1>7 DEF GroupInv, Group!TypeOK
<1>9. Group!OkMeansClean'
  <2> SUFFICES ASSUME group_outcome' = <<"Ok">>
               PROVE  group_joined = Services /\ \A s \in Services : task[s] = "Ok"
    BY <1>4, <1>6 DEF Group!OkMeansClean, Group!Ended
  <2>1. Group!Drained /\ first_error = {}
    BY <1>2, <1>3 DEF Group!Drained, Group!Timeout, Group!Return
  <2>2. QED
    BY <2>1 DEF Group!Drained, GroupInv, Supervised
<1>10. Group!TimeoutCounts'
  <2> SUFFICES ASSUME group_outcome'[1] = "ShutdownTimeout"
               PROVE  group_outcome'[2] = Cardinality({s \in Services : task'[s] = "aborted"})
    BY GroupCounts, Zenon DEF Group!TimeoutCounts
  <2>1. Group!Timeout /\ group_outcome' = <<"ShutdownTimeout", service_count>>
    <3>1. <<"Ok">>[1] = "Ok" /\ <<"Signal">>[1] = "Signal"
      OBVIOUS
    <3>2. group_outcome' # <<"Signal">> /\ group_outcome' # <<"Ok">> /\ group_outcome' \notin Group!Errors
      BY <1>3, <3>1
    <3>3. QED
      BY <1>2, <3>2, Zenon DEF Group!Drained, Group!Timeout, Group!Return
  <2>2. {s \in Services : task'[s] = "aborted"} = Services \ group_joined
    BY <1>4, <1>5, <2>1 DEF Group!Timeout, Group!Joinable, Group!Ended
  <2>3. group_outcome'[2] = service_count
    BY <2>1
  <2>4. QED
    BY <1>5, <2>2, <2>3, Zenon
<1>11. Supervised' /\ Group!SiblingsAsked'
  BY <1>4, <1>5, <1>6 DEF GroupInv, Supervised, Live, Group!SiblingsAsked, Group!Ended
<1>12. QED
  BY <1>8, <1>9, <1>10, <1>11 DEF GroupInv

\* No step of a service, of a shutdown or signal, or of the supervisor forgets what was joined.
LEMMA NextGroup == GroupInv /\ [Group!Next]_groupVars => GroupInv'
<1> SUFFICES ASSUME GroupInv, [Group!Next]_groupVars PROVE GroupInv'
  OBVIOUS
<1> USE DEF GroupInv
<1>1. ASSUME NEW s \in Services, NEW how \in Group!Ended, Group!Exit(s, how) PROVE GroupInv'
  <2>1. /\ task \in [Services -> {"running", "aborted"} \cup Group!Ended] /\ task[s] = "running"
        /\ task' = [task EXCEPT ![s] = how] /\ early' \subseteq Services
        /\ UNCHANGED <<shutdown, group_unseen, group_joined, signal, group_pc, service_count,
                       first_error, group_outcome>>
    BY <1>1 DEF Group!TypeOK, Group!Exit, Group!supervisor
  <2>2. Live /\ s \notin group_joined /\ how \notin {"running", "aborted"}
    BY <2>1 DEF Group!TypeOK, Group!Ended, Supervised
  <2>3. group_joined' \subseteq {t \in Services : task'[t] \in Group!Ended}
    BY <2>1, <2>2 DEF Group!TypeOK
  <2>4. Group!TypeOK'
    BY <2>1, <2>3 DEF Group!TypeOK
  <2>5. Supervised' /\ Group!SiblingsAsked'
    BY <2>1, <2>2 DEF Supervised, Live, Group!SiblingsAsked, Group!TypeOK
  <2>6. group_outcome' = <<"None">> /\ <<"None">>[1] # "ShutdownTimeout" /\ <<"None">> # <<"Ok">>
    <3>1. group_outcome' = <<"None">>
      BY <2>1, <2>2, Zenon DEF Supervised
    <3>2. QED
      BY <3>1, NoneIsNoEnd, Zenon
  <2>7. QED
    BY <2>4, <2>5, <2>6 DEF Group!OkMeansClean, Group!TimeoutCounts
<1>2. ASSUME Group!Shutdown \/ \E received \in {"received", "failed"} : Group!Signal(received)
      PROVE  GroupInv'
  <2>1. /\ shutdown' = TRUE /\ group_unseen' = TRUE /\ signal' \in {"listening", "received", "failed"}
        /\ UNCHANGED <<task, group_joined, group_pc, service_count, first_error, group_outcome, early>>
    <3>1. signal \in {"listening", "received", "failed"}
      BY DEF Group!TypeOK
    <3> HIDE DEF GroupInv
    <3>2. CASE Group!Shutdown
      BY <3>1, <3>2 DEF Group!Shutdown, Group!supervisor
    <3>3. ASSUME NEW received \in {"received", "failed"}, Group!Signal(received) PROVE <2>1
      BY <3>3 DEF Group!Signal, Group!supervisor
    <3>4. QED
      BY <1>2, <3>2, <3>3, Zenon
  <2>2. QED
    BY <2>1 DEF Group!TypeOK, Supervised, Live, Group!SiblingsAsked, Group!OkMeansClean, Group!TimeoutCounts
<1>3. ASSUME Group!Wait \/ Group!Requested PROVE GroupInv'
  <2>1. /\ group_pc \in {"started", "waiting"} /\ group_pc' \in {"waiting", "draining"}
        /\ UNCHANGED <<shutdown, task, group_joined, signal, service_count, first_error, group_outcome, early>>
    BY <1>3 DEF Group!Wait, Group!Requested
  <2>2. group_unseen' \in BOOLEAN /\ (group_unseen' => shutdown)
    <3>1. group_unseen' = group_unseen \/ group_unseen' = FALSE
      BY <1>3 DEF Group!Wait, Group!Requested
    <3>2. group_unseen \in BOOLEAN /\ (group_unseen => shutdown)
      BY Zenon DEF Group!TypeOK, Supervised
    <3>3. CASE group_unseen' = group_unseen
      BY <3>2, <3>3
    <3>4. CASE group_unseen' = FALSE
      BY <3>4, Zenon
    <3>5. QED
      BY <3>1, <3>3, <3>4, Zenon
  <2>3. group_pc' = "draining" => shutdown
    BY <1>3 DEF Group!Wait, Group!Requested, Supervised
  <2>4. Live /\ Live'
    BY <2>1 DEF Live
  <2>5. QED
    BY <2>1, <2>2, <2>3, <2>4, Zenon DEF Group!TypeOK, Supervised, Group!SiblingsAsked, Group!OkMeansClean, Group!TimeoutCounts
<1>4. ASSUME NEW s \in Services, Group!Exited(s) \/ Group!Join(s) PROVE GroupInv'
  <2>1. /\ s \in Group!Joinable /\ Live /\ Live' /\ group_pc' = "draining"
        /\ group_joined' = group_joined \cup {s} /\ service_count' = service_count - 1
        /\ shutdown' = TRUE /\ group_unseen' \in BOOLEAN /\ UNCHANGED <<task, signal, group_outcome, early>>
    BY <1>4, Zenon DEF Group!Exited, Group!Join, Live, Group!TypeOK, Supervised, Group!SiblingsAsked
  <2>2. \/ first_error' = {Group!ErrorOf(s)}
        \/ first_error' = first_error /\ (task[s] = "Ok" \/ first_error # {})
    BY <1>4 DEF Group!Exited, Group!Join
  <2>3. /\ group_joined' \subseteq {t \in Services : task[t] \in Group!Ended}
        /\ service_count' = Group!Cardinality(Services \ group_joined')
        /\ {Group!ErrorOf(s)} \in SUBSET Group!Errors /\ Group!Cardinality({Group!ErrorOf(s)}) = 1
    <3>1. Services \ group_joined' = Services \ (group_joined \cup {s})
      BY <2>1
    <3>2. QED
      BY <2>1, <3>1, JoinCounts, GroupCounts, Zenon
  <2>4. first_error' \in SUBSET Group!Errors /\ Group!Cardinality(first_error') <= 1
    <3>1. CASE first_error' = {Group!ErrorOf(s)}
      <4>1. Group!Cardinality(first_error') = 1
        BY <2>3, <3>1, Zenon
      <4>2. QED
        BY <2>3, <3>1, <4>1
    <3>2. CASE first_error' = first_error
      BY <3>2, Zenon DEF Group!TypeOK
    <3>3. QED
      BY <2>2, <3>1, <3>2
  <2>5. Group!TypeOK'
    BY <2>1, <2>3, <2>4 DEF Group!TypeOK
  <2>6. Supervised' /\ Group!SiblingsAsked'
    BY <2>1, <2>2 DEF Supervised, Group!SiblingsAsked
  <2>7. group_outcome' = <<"None">> /\ <<"None">>[1] # "ShutdownTimeout" /\ <<"None">> # <<"Ok">>
    <3>1. group_outcome' = <<"None">>
      BY <2>1, Zenon DEF Supervised
    <3>2. QED
      BY <3>1, NoneIsNoEnd, Zenon
  <2>8. QED
    BY <2>5, <2>6, <2>7 DEF Group!OkMeansClean, Group!TimeoutCounts
<1>5. ASSUME Group!Drained \/ Group!Timeout PROVE GroupInv'
  <2> HIDE DEF GroupInv
  <2>1. group_pc = "draining"
    BY <1>5 DEF Group!Drained, Group!Timeout
  <2>2. QED
    BY <1>5, <2>1, ReturnGroup, Zenon
<1>6. CASE UNCHANGED groupVars
  BY <1>6, Zenon DEF groupVars, Group!TypeOK, Supervised, Live, Group!SiblingsAsked, Group!OkMeansClean,
    Group!TimeoutCounts
<1>7. QED
  BY <1>1, <1>2, <1>3, <1>4, <1>5, <1>6 DEF Group!Next, Group!Supervise

-----------------------------------------------------------------------------
(* The components side by side                                             *)

CONSTANTS Takers, Identities, quota, max_keys, MaxWindow
VARIABLES backend_state, probe_due, redis_up, clock, windows, period_pc, key, current_window,
  probing, orphaned, granted, overtaken

Period == INSTANCE RedisPeriodLimiter WITH Callers <- Takers, pc <- period_pc

\* RedisPeriodLimiter::new asserts a positive capacity.
ASSUME PeriodConfig == Period!LimiterConfig

Lifecycle ==
  /\ Init /\ [][Next]_vars
  /\ Period!Init /\ [][Period!Next]_(Period!vars)
  /\ Config!Init /\ [][Config!Next]_configVars
  /\ Subscription!Init /\ [][Subscription!Next]_subscriptionVars
  /\ Group!Init /\ [][Group!Next]_groupVars

\* Every component keeps its types.
TypesOK == TypeOK /\ Group!TypeOK /\ Config!TypeOK /\ Period!TypeOK /\ Subscription!TypeOK

\* Gaps and ends are reported as they were: a service group's Ok means that every service
\* returned Ok, its timeout counts those still running, and no group starts to drain before its
\* services were asked to stop; what a Redis subscription delivers next is what follows the last
\* message read and the Lagged counts in between, up to the Closed before its end.
EndsHonestly ==
  /\ Group!OkMeansClean /\ Group!TimeoutCounts /\ Group!SiblingsAsked
  /\ Subscription!NoSilentGap /\ Subscription!ClosedBeforeEof

\* Updates of a DynamicConfig that do not overlap leave every subscriber that caught up with
\* what current() returns, the newest generation; and a generation names one value even
\* when they do overlap.
UpdatesConverge == Config!UpdatesConverge

\* The rescue limiter of RedisPeriodLimiter grants no identity more than its quota in a window,
\* and a backend marked as being probed has a caller that probes it or has been orphaned.
RescueKept == Period!RescueKept

\* The limiter's invariant, from its own module.
LEMMA PeriodKept == Period!Init /\ [][Period!Next]_(Period!vars) => []Period!LimiterInv
<1>1. Period!Init => Period!LimiterInv
  BY PeriodConfig, Period!InitLimiter
<1>2. Period!LimiterInv /\ [Period!Next]_(Period!vars) => Period!LimiterInv'
  BY PeriodConfig, Period!NextLimiter
<1>3. QED
  BY <1>1, <1>2, PTL

\* Every component keeps its types, for any constants: the channel of a queue and that of a
\* subscription never hold more than their capacity, generations stay in range, the supervisor of
\* a service group counts exactly the services that it has not joined, and the rescue map of a
\* period limiter tracks at most max_rescue_keys identities.
THEOREM TypesAreKept == Lifecycle => []TypesOK
<1> DEFINE Inv == QueueInv /\ GroupInv /\ ConfigInv /\ SubscriptionInv /\ Period!LimiterInv
<1>1. Inv => TypesOK
  BY Period!LimiterTypes DEF TypesOK, QueueInv, GroupInv, ConfigInv, SubscriptionInv
<1>2. QED
  BY <1>1, PeriodKept, InitQueue, InitGroup, InitConfig, InitSubscription,
    NextQueue, NextGroup, NextConfig, NextSubscription, PTL DEF Lifecycle

\* A service group of any size reports its end as it was: Ok only if every service returned Ok, a
\* timeout with the number of services still running, and it drains only what was asked to stop.
\* A subscription of any capacity accounts for every message between the ones it delivers, across
\* reconnects, and ends under a receiver only after Closed.
THEOREM EndsAreHonest == Lifecycle => []EndsHonestly
<1>1. GroupInv /\ SubscriptionInv => EndsHonestly
  BY SubscriptionHead DEF EndsHonestly, GroupInv, SubscriptionInv
<1>2. QED
  BY <1>1, InitGroup, InitSubscription, NextGroup, NextSubscription, PTL DEF Lifecycle

\* DynamicConfig::update never gives two contents one generation, and updates that do not overlap
\* leave every subscriber that caught up with the newest, however many it slept through.
THEOREM ConfigConverges == Lifecycle => []UpdatesConverge
<1>1. ConfigInv => UpdatesConverge
  BY ConfigKeeps DEF UpdatesConverge
<1>2. QED
  BY <1>1, InitConfig, NextConfig, PTL DEF Lifecycle

\* Whatever callers, identities and capacity there are, the rescue map grants no identity more than
\* its quota in a window until a call locks the map with an older window than it holds, and a
\* recovery probe in flight has somebody to report on it unless its prober was dropped.
THEOREM QuotasAreKept == Lifecycle => []RescueKept
<1>1. Period!LimiterInv => RescueKept
  BY Period!LimiterKeeps DEF RescueKept
<1>2. QED
  BY <1>1, PeriodKept, PTL DEF Lifecycle
=============================================================================
