--------------------------- MODULE BatchExecutor ----------------------------
(***************************************************************************)
(* BatchExecutor and ChunkExecutor (core/src/executor.rs): producers push  *)
(* items and ask for flushes through a bounded channel; one worker runs    *)
(* them in batches by weight (a BatchExecutor's item weighs one), on each  *)
(* tick, on flush and at the end.  The job may panic, which ends the       *)
(* worker.  shutdown consumes the executor, so no push is under way then.  *)
(***************************************************************************)
EXTENDS Naturals, Sequences, SequenceTheorems, TLAPS

CONSTANTS
  Items, Weights,    \* Weights gives each item its size
  Flushers,          \* callers of flush
  Limit,             \* max_batch_size or max_chunk_bytes
  Capacity           \* of the channel

VARIABLES
  kind,       \* "batch" or "chunk"
  channel,    \* Command::{Item, Flush, Shutdown}
  batch, bytes,
  worker,     \* "select", "running", "dead" or "done"
  running,    \* the items of the job under way
  after,      \* what the worker does once the job ends
  flush,      \* per caller: "idle", "waiting", "ok" or "closed"
  owner,      \* "open", "stopping", "dropped", "ok" or "closed"
  accepted, executed,   \* history, in order
  before      \* history: what each flush has to cover

vars == <<kind, channel, batch, bytes, worker, running, after, flush, owner, accepted, executed, before>>

Size(i) == IF kind = "batch" THEN 1 ELSE Weights[i]
Command(op, v) == [op |-> op, v |-> v]

TypeOK ==
  /\ kind \in {"batch", "chunk"}
  /\ Len(channel) <= Capacity
  /\ batch \in Seq(Items) /\ running \in Seq(Items)
  /\ worker \in {"select", "running", "dead", "done"}
  /\ flush \in [Flushers -> {"idle", "waiting", "ok", "closed"}]

Init ==
  /\ kind \in {"batch", "chunk"}
  /\ channel = <<>> /\ batch = <<>> /\ bytes = 0
  /\ worker = "select" /\ running = <<>> /\ after = {}
  /\ flush = [f \in Flushers |-> "idle"]
  /\ owner = "open"
  /\ accepted = <<>> /\ executed = <<>>
  /\ before = [f \in Flushers |-> <<>>]

Room == worker \in {"select", "running"} /\ Len(channel) < Capacity
Gone == worker \in {"dead", "done"}

-----------------------------------------------------------------------------
(* the callers                                                             *)

\* Each item is pushed once; a push on a dead worker returns Closed.
push(i) ==
  /\ owner = "open" /\ i \notin {accepted[n] : n \in DOMAIN accepted} /\ Room
  /\ channel' = Append(channel, Command("Item", i))
  /\ accepted' = Append(accepted, i)
  /\ UNCHANGED <<kind, batch, bytes, worker, running, after, flush, owner, executed, before>>

flush_send(f) ==
  /\ owner = "open" /\ flush[f] = "idle"
  /\ \/ /\ Room
        /\ channel' = Append(channel, Command("Flush", f))
        /\ flush' = [flush EXCEPT ![f] = "waiting"]
        /\ before' = [before EXCEPT ![f] = accepted]
     \/ /\ Gone
        /\ flush' = [flush EXCEPT ![f] = "closed"]
        /\ UNCHANGED <<channel, before>>
  /\ UNCHANGED <<kind, batch, bytes, worker, running, after, owner, accepted, executed>>

shutdown ==
  /\ owner = "open" /\ \A f \in Flushers : flush[f] # "waiting"
  /\ \/ /\ Room
        /\ channel' = Append(channel, Command("Shutdown", "owner"))
        /\ owner' = "stopping"
     \/ Gone /\ owner' = "closed" /\ UNCHANGED channel
  /\ UNCHANGED <<kind, batch, bytes, worker, running, after, flush, accepted, executed, before>>

\* Drop closes the channel and leaves the worker to finish on its own.
drop ==
  /\ owner = "open" /\ \A f \in Flushers : flush[f] # "waiting"
  /\ owner' = "dropped"
  /\ UNCHANGED <<kind, channel, batch, bytes, worker, running, after, flush, accepted, executed, before>>

-----------------------------------------------------------------------------
(* run_worker and run_chunk_worker                                         *)

\* execute(take(batch)), then `next`; an empty flush_batch runs nothing
Start(items, next) ==
  /\ worker' = "running"
  /\ running' = items
  /\ after' = next
  /\ batch' = <<>> /\ bytes' = 0

TakeItem ==
  /\ worker = "select" /\ channel # <<>> /\ Head(channel).op = "Item"
  /\ channel' = Tail(channel)
  /\ LET i == Head(channel).v IN
     IF bytes + Size(i) >= Limit
     THEN Start(Append(batch, i), {})
     ELSE /\ batch' = Append(batch, i)
          /\ bytes' = bytes + Size(i)
          /\ UNCHANGED <<worker, running, after>>
  /\ UNCHANGED <<kind, flush, owner, accepted, executed, before>>

\* Fault: the caller is answered first and the batch run afterwards.
TakeFlushEarly ==
  /\ worker = "select" /\ channel # <<>> /\ Head(channel).op = "Flush"
  /\ channel' = Tail(channel)
  /\ flush' = [flush EXCEPT ![Head(channel).v] = "ok"]
  /\ Start(batch, {})
  /\ UNCHANGED <<kind, owner, accepted, executed, before>>

TakeFlush ==
  /\ worker = "select" /\ channel # <<>> /\ Head(channel).op = "Flush"
  /\ channel' = Tail(channel)
  /\ Start(batch, {Head(channel)})
  /\ UNCHANGED <<kind, flush, owner, accepted, executed, before>>

\* Command::Shutdown, or the channel closed and empty
TakeEnd ==
  /\ worker = "select"
  /\ \/ /\ channel # <<>> /\ Head(channel).op = "Shutdown"
        /\ channel' = Tail(channel)
     \/ channel = <<>> /\ owner = "dropped" /\ UNCHANGED channel
  /\ Start(batch, {Command("Shutdown", "owner")})
  /\ UNCHANGED <<kind, flush, owner, accepted, executed, before>>

\* Fault: a tick while the channel has work drops what was gathered.
TickForgetful ==
  /\ worker = "select" /\ batch # <<>>
  /\ batch' = <<>> /\ bytes' = 0
  /\ UNCHANGED <<kind, channel, worker, running, after, flush, owner, accepted, executed, before>>

Tick ==
  /\ worker = "select" /\ batch # <<>>
  /\ Start(batch, {})
  /\ UNCHANGED <<kind, channel, flush, owner, accepted, executed, before>>

JobEnds ==
  /\ worker = "running"
  /\ executed' = executed \o running
  /\ running' = <<>> /\ after' = {}
  /\ flush' = [f \in Flushers |-> IF Command("Flush", f) \in after THEN "ok" ELSE flush[f]]
  /\ worker' = IF Command("Shutdown", "owner") \in after THEN "done" ELSE "select"
  /\ owner' = IF worker' = "done" /\ owner = "stopping" THEN "ok" ELSE owner
  /\ UNCHANGED <<kind, channel, batch, bytes, accepted, before>>

\* The job panics: the receiver and the answers it holds are dropped.
JobPanics ==
  /\ worker = "running" /\ running # <<>>
  /\ worker' = "dead"
  /\ running' = <<>> /\ after' = {} /\ channel' = <<>>
  /\ flush' = [f \in Flushers |-> IF flush[f] = "waiting" THEN "closed" ELSE flush[f]]
  /\ owner' = IF owner = "stopping" THEN "closed" ELSE owner
  /\ UNCHANGED <<kind, batch, bytes, accepted, executed, before>>

Worker == TakeItem \/ TakeFlush \/ TakeEnd \/ Tick \/ JobEnds
Called == (\E i \in Items : push(i)) \/ (\E f \in Flushers : flush_send(f)) \/ shutdown \/ drop

\* the two executors, which differ in how an item weighs
BatchCalls == kind = "batch" /\ Called
ChunkCalls == kind = "chunk" /\ Called
run_worker == kind = "batch" /\ Worker
run_chunk_worker == kind = "chunk" /\ Worker

Next == BatchCalls \/ ChunkCalls \/ run_worker \/ run_chunk_worker \/ JobPanics

\* tokio polls the worker, its ticker fires and a job that does not panic ends.
Spec == Init /\ [][Next]_vars /\ WF_vars(Worker)

-----------------------------------------------------------------------------

begun == executed \o running \o batch

\* what follows `done` in `all` is queued, once and in order (items are pushed once)
QueuedAfter(done, all, queue) ==
  LET left == (Len(done) + 1)..Len(all) IN
  /\ Len(done) <= Len(all) /\ done = SubSeq(all, 1, Len(done))
  /\ \A n \in left : \E p \in DOMAIN queue : queue[p] = Command("Item", all[n])
  /\ \A p \in DOMAIN queue : queue[p].op = "Item" => \E n \in left : queue[p].v = all[n]
  /\ \A p, q \in DOMAIN queue : \A n, m \in left :
       p < q /\ queue[p] = Command("Item", all[n]) /\ queue[q] = Command("Item", all[m]) => n < m

\* While the worker lives, every accepted item is executed, in the job under
\* way, gathered or queued, once and in the order in which they were accepted:
\* no tick, flush or full batch drops, repeats or reorders one.
ItemsInOrder == worker # "dead" => QueuedAfter(begun, accepted, channel)

\* flush() that returns Ok has executed every item accepted before it was
\* called ("Executes all items accepted before this call").
FlushCovers ==
  \A f \in Flushers : flush[f] = "ok" =>
    Len(before[f]) <= Len(executed) /\ before[f] = SubSeq(executed, 1, Len(before[f]))

\* Every caller of flush and shutdown is answered, also when a job panics.
CallersAnswered ==
  /\ \A f \in Flushers : flush[f] = "waiting" ~> flush[f] # "waiting"
  /\ owner = "stopping" ~> owner # "stopping"

\* Accepted items are executed without another push: the tick sees to them,
\* unless a job has panicked.
AcceptedExecuted ==
  [](Len(accepted) > 0 => <>(worker = "dead" \/ Len(executed) = Len(accepted)))

-----------------------------------------------------------------------------
(* What the worker has begun is a prefix of what was accepted, and the     *)
(* channel holds the rest in its order; a flush in the channel is behind   *)
(* every item it has to cover.                                             *)

\* ExecutorConfig's capacities.
BatchConfig == Capacity \in Nat

Sent == {x \in [op : {"Item", "Flush", "Shutdown"}, v : Items \cup Flushers \cup {"owner"}] :
           /\ x.op = "Item" => x.v \in Items
           /\ x.op = "Flush" => x.v \in Flushers}

BatchTyped ==
  /\ kind \in {"batch", "chunk"}
  /\ Capacity \in Nat /\ channel \in Seq(Sent) /\ Len(channel) <= Capacity
  /\ batch \in Seq(Items) /\ running \in Seq(Items)
  /\ worker \in {"select", "running", "dead", "done"}
  /\ flush \in [Flushers -> {"idle", "waiting", "ok", "closed"}]
  /\ after \in SUBSET Sent
  /\ accepted \in Seq(Items) /\ executed \in Seq(Items) /\ before \in [Flushers -> Seq(Items)]
  /\ worker # "running" => running = <<>> /\ after = {}

\* Items are pushed once.
Distinct(all) == \A n, m \in DOMAIN all : all[n] = all[m] => n = m

\* A flush has to cover `first`, a prefix of `all`: what of it is not yet in `done` is queued
\* ahead of the flush.
Ahead(first, done, all, queue, p) ==
  /\ Len(first) <= Len(all) /\ first = SubSeq(all, 1, Len(first))
  /\ \A n \in (Len(done) + 1)..Len(first) : \E q \in 1..(p - 1) : queue[q] = Command("Item", all[n])

\* Every flush that is queued or in the worker's hands was asked for, and comes after its items.
FlushesWait ==
  /\ \A p \in DOMAIN channel : channel[p].op = "Flush" =>
       /\ flush[channel[p].v] # "idle"
       /\ worker # "dead" => Ahead(before[channel[p].v], begun, accepted, channel, p)
  /\ \A x \in after : x.op = "Flush" =>
       /\ flush[x.v] # "idle"
       /\ Len(before[x.v]) <= Len(accepted) /\ before[x.v] = SubSeq(accepted, 1, Len(before[x.v]))
       /\ Len(before[x.v]) <= Len(executed) + Len(running)

BatchInv ==
  BatchTyped /\ Distinct(accepted) /\ FlushesWait /\ ItemsInOrder /\ FlushCovers

-----------------------------------------------------------------------------
(* What a command does to the channel's order.                             *)

\* A pushed item follows what is queued.
LEMMA PushedLast ==
  ASSUME NEW done \in Seq(Items), NEW all \in Seq(Items), NEW queue \in Seq(Sent), NEW i \in Items,
         QueuedAfter(done, all, queue), Distinct(all), \A n \in DOMAIN all : all[n] # i
  PROVE  /\ Distinct(Append(all, i))
         /\ QueuedAfter(done, Append(all, i), Append(queue, Command("Item", i)))
<1> DEFINE all2 == Append(all, i)
           queue2 == Append(queue, Command("Item", i))
           left == (Len(done) + 1)..Len(all)
           left2 == (Len(done) + 1)..Len(all2)
<1>1. /\ Len(all2) = Len(all) + 1 /\ \A n \in 1..Len(all) : all2[n] = all[n]
      /\ all2[Len(all) + 1] = i /\ Len(all) \in Nat /\ Len(done) \in Nat
      /\ Len(done) <= Len(all) /\ all2 \in Seq(Items)
  BY DEF QueuedAfter
<1>2. /\ Len(queue2) = Len(queue) + 1 /\ \A p \in 1..Len(queue) : queue2[p] = queue[p]
      /\ queue2[Len(queue) + 1] = [op |-> "Item", v |-> i] /\ Len(queue) \in Nat
      /\ DOMAIN queue2 = 1..(Len(queue) + 1) /\ DOMAIN queue = 1..Len(queue)
  BY DEF Command
<1>3. Distinct(all2)
  BY <1>1 DEF Distinct
<1>4. left2 = left \cup {Len(all) + 1}
  BY <1>1
<1>5. done = SubSeq(all2, 1, Len(done))
  BY <1>1 DEF QueuedAfter
<1>6. \A n \in left2 : \E p \in DOMAIN queue2 : queue2[p] = Command("Item", all2[n])
  <2>1. ASSUME NEW n \in left PROVE \E p \in DOMAIN queue2 : queue2[p] = Command("Item", all2[n])
    <3>1. PICK p \in DOMAIN queue : queue[p] = Command("Item", all[n])
      BY DEF QueuedAfter
    <3>2. QED
      BY <1>1, <1>2, <3>1
  <2>2. queue2[Len(queue) + 1] = Command("Item", all2[Len(all) + 1])
    BY <1>1, <1>2 DEF Command
  <2>3. QED
    BY <1>2, <1>4, <2>1, <2>2
<1>7. \A p \in DOMAIN queue2 : queue2[p].op = "Item" => \E n \in left2 : queue2[p].v = all2[n]
  <2>1. ASSUME NEW p \in 1..Len(queue), queue2[p].op = "Item" PROVE \E n \in left2 : queue2[p].v = all2[n]
    <3>1. PICK n \in left : queue[p].v = all[n]
      BY <1>2, <2>1 DEF QueuedAfter
    <3>2. n \in left2 /\ queue2[p].v = all2[n]
      BY <1>1, <1>2, <1>4, <3>1
    <3>3. QED
      BY <3>2
  <2>2. queue2[Len(queue) + 1].v = all2[Len(all) + 1] /\ Len(all) + 1 \in left2
    BY <1>1, <1>2
  <2> HIDE DEF queue2, all2
  <2>3. \A p \in DOMAIN queue2 : p \in 1..Len(queue) \/ p = Len(queue) + 1
    BY <1>2
  <2>4. QED
    BY <2>1, <2>2, <2>3
<1>8. ASSUME NEW p \in DOMAIN queue2, NEW q \in DOMAIN queue2, NEW n \in left2, NEW m \in left2, p < q,
             queue2[p] = Command("Item", all2[n]), queue2[q] = Command("Item", all2[m])
      PROVE  n < m
  <2>1. p \in DOMAIN queue /\ queue[p].op = "Item" /\ queue[p].v = all2[n]
    BY <1>2, <1>8 DEF Command
  <2>2. n \in left
    <3>1. PICK o \in left : queue[p].v = all[o]
      BY <2>1 DEF QueuedAfter
    <3>2. all[o] # i
      BY <1>1, <3>1
    <3>3. n # Len(all) + 1
      BY <1>1, <2>1, <3>1, <3>2
    <3>4. QED
      BY <1>4, <3>3
  <2>3. CASE m = Len(all) + 1
    BY <1>1, <2>2, <2>3
  <2>4. CASE m \in left
    <3>1. all2[m] # i /\ q # Len(queue) + 1
      BY <1>1, <1>2, <1>8, <2>4 DEF Command
    <3>2. q \in DOMAIN queue /\ queue[q] = Command("Item", all[m]) /\ queue[p] = Command("Item", all[n])
      BY <1>1, <1>2, <1>8, <2>1, <2>2, <2>4, <3>1
    <3>3. QED
      BY <1>8, <2>1, <2>2, <2>4, <3>2 DEF QueuedAfter
  <2>5. QED
    BY <1>4, <2>3, <2>4
<1> HIDE DEF all2, queue2
<1>9. QueuedAfter(done, all2, queue2)
  BY <1>1, <1>5, <1>6, <1>7, <1>8 DEF QueuedAfter
<1>10. QED
  BY <1>3, <1>9 DEF all2, queue2

\* A flush or the end of the executor changes nothing about the items.
LEMMA OtherLast ==
  ASSUME NEW done \in Seq(Items), NEW all \in Seq(Items), NEW queue \in Seq(Sent), NEW x \in Sent,
         QueuedAfter(done, all, queue), x.op # "Item"
  PROVE  QueuedAfter(done, all, Append(queue, x))
<1> DEFINE queue2 == Append(queue, x)
<1>1. /\ DOMAIN queue2 = 1..(Len(queue) + 1) /\ DOMAIN queue = 1..Len(queue) /\ Len(queue) \in Nat
      /\ queue2[Len(queue) + 1] = x /\ \A p \in 1..Len(queue) : queue2[p] = queue[p]
  OBVIOUS
<1>2. \A y : x # Command("Item", y)
  BY DEF Command
<1> HIDE DEF queue2
<1>3. \A p \in DOMAIN queue2 : queue2[p].op = "Item" => p \in DOMAIN queue /\ queue2[p] = queue[p]
  BY <1>1
<1>4. \A p \in DOMAIN queue2 : \A y : queue2[p] = Command("Item", y) => p \in DOMAIN queue /\ queue2[p] = queue[p]
  BY <1>1, <1>2
<1>5. \A p \in DOMAIN queue : p \in DOMAIN queue2 /\ queue2[p] = queue[p]
  BY <1>1
<1>6. QueuedAfter(done, all, queue2)
  BY <1>3, <1>4, <1>5 DEF QueuedAfter
<1>7. QED
  BY <1>6 DEF queue2

\* The item the worker takes is the next one.
LEMMA NextTaken ==
  ASSUME NEW done \in Seq(Items), NEW all \in Seq(Items), NEW queue \in Seq(Sent),
         QueuedAfter(done, all, queue), Distinct(all), queue # <<>>, Head(queue).op = "Item"
  PROVE  /\ Len(done) < Len(all) /\ Head(queue).v = all[Len(done) + 1]
         /\ QueuedAfter(Append(done, Head(queue).v), all, Tail(queue))
<1> DEFINE i == Head(queue).v
           left == (Len(done) + 1)..Len(all)
           done2 == Append(done, i)
           queue2 == Tail(queue)
<1>1. /\ DOMAIN queue = 1..Len(queue) /\ Len(queue) \in Nat /\ 1 \in DOMAIN queue /\ queue[1] = Head(queue)
      /\ DOMAIN queue2 = 1..(Len(queue) - 1) /\ \A p \in DOMAIN queue2 : queue2[p] = queue[p + 1]
      /\ queue[1] = Command("Item", i)
  <2>1. Head(queue) \in Sent
    OBVIOUS
  <2>2. Head(queue) = Command("Item", i)
    BY <2>1 DEF Sent, Command
  <2>3. QED
    BY <2>2
<1>2. Len(done) \in Nat /\ Len(all) \in Nat /\ DOMAIN all = 1..Len(all) /\ Len(done) <= Len(all)
      /\ done = SubSeq(all, 1, Len(done))
  BY DEF QueuedAfter
<1>3. PICK n \in left : i = all[n]
  <2>1. \E n \in left : queue[1].v = all[n]
    BY <1>1 DEF QueuedAfter
  <2>2. QED
    BY <1>1, <2>1
<1>4. n = Len(done) + 1
  <2>1. Len(done) + 1 \in left
    BY <1>2, <1>3
  <2>2. PICK p \in DOMAIN queue : queue[p] = Command("Item", all[Len(done) + 1])
    BY <2>1 DEF QueuedAfter
  <2>3. CASE p = 1
    BY <1>1, <1>2, <1>3, <2>1, <2>2, <2>3 DEF Command, Distinct
  <2>4. CASE 1 < p
    <3>1. n < Len(done) + 1
      BY <1>1, <1>3, <2>1, <2>2, <2>4 DEF QueuedAfter
    <3>2. QED
      BY <1>2, <1>3, <3>1
  <2>5. QED
    BY <1>1, <2>3, <2>4
<1>5. /\ Len(done2) = Len(done) + 1 /\ Len(done) < Len(all) /\ i = all[Len(done) + 1]
      /\ done2 = SubSeq(all, 1, Len(done2))
  <2>1. Len(done2) = Len(done) + 1 /\ Len(done) < Len(all) /\ i = all[Len(done) + 1]
    BY <1>2, <1>3, <1>4
  <2>2. \A m \in 1..Len(done) : done[m] = all[m]
    BY <1>2
  <2>3. QED
    BY <1>2, <2>1, <2>2
<1> DEFINE left2 == (Len(done2) + 1)..Len(all)
<1>6. left2 = left \ {Len(done) + 1} /\ left2 \subseteq left
  BY <1>2, <1>5
<1>7. ASSUME NEW m \in left2 PROVE \E p \in DOMAIN queue2 : queue2[p] = Command("Item", all[m])
  <2>1. PICK p \in DOMAIN queue : queue[p] = Command("Item", all[m])
    BY <1>6 DEF QueuedAfter
  <2>2. p # 1
    BY <1>1, <1>2, <1>5, <2>1 DEF Command, Distinct
  <2>3. p - 1 \in DOMAIN queue2 /\ queue2[p - 1] = queue[p]
    BY <1>1, <2>2
  <2>4. QED
    BY <2>1, <2>3
<1>8. ASSUME NEW p \in DOMAIN queue2, queue2[p].op = "Item" PROVE \E m \in left2 : queue2[p].v = all[m]
  <2>1. p + 1 \in DOMAIN queue /\ queue2[p] = queue[p + 1] /\ queue[p + 1].op = "Item"
    BY <1>1, <1>8
  <2>2. PICK m \in left : queue[p + 1].v = all[m]
    BY <2>1 DEF QueuedAfter
  <2>3. queue[p + 1] = Command("Item", all[m])
    <3>1. queue[p + 1] \in Sent
      BY <2>1
    <3>2. QED
      BY <2>1, <2>2, <3>1 DEF Sent, Command
  <2>4. Len(done) + 1 < m
    <3>1. queue[1] = Command("Item", all[Len(done) + 1]) /\ Len(done) + 1 \in left /\ 1 < p + 1
      BY <1>1, <1>3, <1>4
    <3>2. QED
      BY <1>1, <2>1, <2>2, <2>3, <3>1 DEF QueuedAfter
  <2>5. QED
    BY <1>6, <2>1, <2>2, <2>4
<1>9. ASSUME NEW p \in DOMAIN queue2, NEW q \in DOMAIN queue2, NEW m \in left2, NEW o \in left2, p < q,
             queue2[p] = Command("Item", all[m]), queue2[q] = Command("Item", all[o])
      PROVE  m < o
  <2>1. p + 1 \in DOMAIN queue /\ q + 1 \in DOMAIN queue /\ p + 1 < q + 1
        /\ queue[p + 1] = queue2[p] /\ queue[q + 1] = queue2[q]
    BY <1>1, <1>9
  <2>2. QED
    BY <1>6, <1>9, <2>1 DEF QueuedAfter
<1> HIDE DEF done2, queue2, left
<1>10. QueuedAfter(done2, all, queue2)
  BY <1>2, <1>5, <1>7, <1>8, <1>9 DEF QueuedAfter
<1>11. QED
  BY <1>5, <1>10 DEF done2, queue2

\* Taking another command leaves the items as they are.
LEMMA OtherTaken ==
  ASSUME NEW done \in Seq(Items), NEW all \in Seq(Items), NEW queue \in Seq(Sent),
         QueuedAfter(done, all, queue), queue # <<>>, Head(queue).op # "Item"
  PROVE  QueuedAfter(done, all, Tail(queue))
<1> DEFINE queue2 == Tail(queue)
           left == (Len(done) + 1)..Len(all)
<1>1. /\ DOMAIN queue = 1..Len(queue) /\ Len(queue) \in Nat /\ 1 \in DOMAIN queue /\ queue[1].op # "Item"
      /\ DOMAIN queue2 = 1..(Len(queue) - 1) /\ \A p \in DOMAIN queue2 : queue2[p] = queue[p + 1]
  OBVIOUS
<1>2. ASSUME NEW m \in left PROVE \E p \in DOMAIN queue2 : queue2[p] = Command("Item", all[m])
  <2>1. PICK p \in DOMAIN queue : queue[p] = Command("Item", all[m])
    BY DEF QueuedAfter
  <2>2. p # 1
    BY <1>1, <2>1 DEF Command
  <2>3. p - 1 \in DOMAIN queue2 /\ queue2[p - 1] = queue[p]
    BY <1>1, <2>2
  <2>4. QED
    BY <2>1, <2>3
<1>3. ASSUME NEW p \in DOMAIN queue2, queue2[p].op = "Item" PROVE \E m \in left : queue2[p].v = all[m]
  BY <1>1, <1>3 DEF QueuedAfter
<1>4. ASSUME NEW p \in DOMAIN queue2, NEW q \in DOMAIN queue2, NEW m \in left, NEW o \in left, p < q,
             queue2[p] = Command("Item", all[m]), queue2[q] = Command("Item", all[o])
      PROVE  m < o
  <2>1. p + 1 \in DOMAIN queue /\ q + 1 \in DOMAIN queue /\ p + 1 < q + 1
        /\ queue[p + 1] = queue2[p] /\ queue[q + 1] = queue2[q]
    BY <1>1, <1>4
  <2>2. QED
    BY <1>4, <2>1 DEF QueuedAfter
<1> HIDE DEF queue2
<1>5. QueuedAfter(done, all, queue2)
  BY <1>2, <1>3, <1>4 DEF QueuedAfter
<1>6. QED
  BY <1>5 DEF queue2

\* A flush stays behind its items whatever is queued after it.
LEMMA AheadLast ==
  ASSUME NEW first \in Seq(Items), NEW done \in Seq(Items), NEW all \in Seq(Items),
         NEW queue \in Seq(Sent), NEW x \in Sent, NEW p \in DOMAIN queue,
         Ahead(first, done, all, queue, p)
  PROVE  /\ Ahead(first, done, all, Append(queue, x), p)
         /\ \A i \in Items : Ahead(first, done, Append(all, i), Append(queue, x), p)
<1>1. \A q \in 1..(p - 1) : q \in DOMAIN queue /\ Append(queue, x)[q] = queue[q]
  OBVIOUS
<1>2. Len(first) \in Nat /\ Len(all) \in Nat /\ Len(done) \in Nat /\ Len(first) <= Len(all)
      /\ first = SubSeq(all, 1, Len(first))
  BY DEF Ahead
<1>3. \A i \in Items : /\ Len(Append(all, i)) = Len(all) + 1
                       /\ \A n \in 1..Len(all) : Append(all, i)[n] = all[n]
                       /\ first = SubSeq(Append(all, i), 1, Len(first))
  BY <1>2
<1>4. \A n \in (Len(done) + 1)..Len(first) : n \in 1..Len(all)
  BY <1>2
<1> DEFINE queue2 == Append(queue, x)
<1>5. \A n \in (Len(done) + 1)..Len(first) : \E q \in 1..(p - 1) : queue2[q] = Command("Item", all[n])
  BY <1>1 DEF Ahead
<1> HIDE DEF queue2
<1>6. Ahead(first, done, all, queue2, p)
  BY <1>2, <1>5 DEF Ahead
<1>7. ASSUME NEW i \in Items PROVE Ahead(first, done, Append(all, i), queue2, p)
  <2> DEFINE all2 == Append(all, i)
  <2>1. /\ Len(first) <= Len(all2) /\ first = SubSeq(all2, 1, Len(first))
        /\ \A n \in (Len(done) + 1)..Len(first) : all2[n] = all[n]
    BY <1>2, <1>3, <1>4
  <2> HIDE DEF all2
  <2>2. Ahead(first, done, all2, queue2, p)
    BY <1>5, <2>1 DEF Ahead
  <2>3. QED
    BY <2>2 DEF all2
<1>8. QED
  BY <1>6, <1>7 DEF queue2

\* It stays behind those that are left when the worker takes a command.
LEMMA AheadTaken ==
  ASSUME NEW first \in Seq(Items), NEW done \in Seq(Items), NEW all \in Seq(Items),
         NEW queue \in Seq(Sent), queue # <<>>, NEW p \in DOMAIN Tail(queue),
         Ahead(first, done, all, queue, p + 1)
  PROVE  /\ Head(queue).op # "Item" => Ahead(first, done, all, Tail(queue), p)
         /\ Len(done) < Len(all) /\ Distinct(all) /\ Head(queue).op = "Item"
              /\ Head(queue).v = all[Len(done) + 1]
            => Ahead(first, Append(done, Head(queue).v), all, Tail(queue), p)
<1> DEFINE queue2 == Tail(queue)
<1>1. /\ Len(first) \in Nat /\ Len(all) \in Nat /\ Len(done) \in Nat /\ Len(first) <= Len(all)
      /\ first = SubSeq(all, 1, Len(first)) /\ DOMAIN all = 1..Len(all)
  BY DEF Ahead
<1>2. p \in Nat /\ \A q \in 2..p : q - 1 \in 1..(p - 1) /\ queue2[q - 1] = queue[q]
  OBVIOUS
<1>3. \A n \in (Len(done) + 1)..Len(first) : \E q \in 1..p : queue[q] = Command("Item", all[n])
  BY <1>2 DEF Ahead
<1>4. queue[1] = Head(queue)
  OBVIOUS
<1> HIDE DEF queue2
<1>5. ASSUME Head(queue).op # "Item" PROVE Ahead(first, done, all, queue2, p)
  <2>1. \A n \in (Len(done) + 1)..Len(first) : \E q \in 2..p : queue[q] = Command("Item", all[n])
    BY <1>2, <1>3, <1>4, <1>5 DEF Command
  <2>2. QED
    BY <1>1, <1>2, <2>1 DEF Ahead
<1>6. ASSUME Len(done) < Len(all), Distinct(all), Head(queue).op = "Item",
             Head(queue).v = all[Len(done) + 1]
      PROVE  Ahead(first, Append(done, Head(queue).v), all, queue2, p)
  <2> DEFINE done2 == Append(done, Head(queue).v)
  <2>1. Len(done2) = Len(done) + 1
    OBVIOUS
  <2>2. ASSUME NEW n \in (Len(done2) + 1)..Len(first)
        PROVE  \E q \in 1..(p - 1) : queue2[q] = Command("Item", all[n])
    <3>1. n \in (Len(done) + 1)..Len(first) /\ n # Len(done) + 1 /\ n \in DOMAIN all /\ Len(done) + 1 \in DOMAIN all
      BY <1>1, <1>6, <2>1
    <3>2. PICK q \in 1..p : queue[q] = Command("Item", all[n])
      BY <1>3, <3>1
    <3>3. q # 1
      BY <1>4, <1>6, <3>1, <3>2 DEF Command, Distinct
    <3>4. q \in 2..p
      BY <1>2, <3>3
    <3>5. QED
      BY <1>2, <3>2, <3>4
  <2> HIDE DEF done2
  <2>3. Ahead(first, done2, all, queue2, p)
    BY <1>1, <2>2 DEF Ahead
  <2>4. QED
    BY <2>3 DEF done2
<1>7. QED
  BY <1>5, <1>6 DEF queue2

-----------------------------------------------------------------------------

\* What the worker has begun, in numbers.
LEMMA BegunTyped ==
  ASSUME BatchTyped
  PROVE  /\ begun \in Seq(Items)
         /\ Len(begun) = Len(executed) + Len(running) + Len(batch)
         /\ Len(executed) \in Nat /\ Len(running) \in Nat /\ Len(batch) \in Nat
BY DEF BatchTyped, begun

\* Nothing has been pushed.
LEMMA InitBatch == BatchConfig /\ Init => BatchInv
<1> SUFFICES ASSUME BatchConfig, Init PROVE BatchInv
  OBVIOUS
<1>1. BatchTyped /\ Distinct(accepted) /\ FlushesWait /\ FlushCovers
  BY DEF BatchConfig, Init, BatchTyped, Distinct, FlushesWait, FlushCovers
<1>2. begun = <<>> /\ accepted = <<>> /\ channel = <<>>
  BY DEF Init, begun
<1>3. ItemsInOrder
  BY <1>2 DEF ItemsInOrder, QueuedAfter
<1>4. QED
  BY <1>1, <1>3 DEF BatchInv

\* A push adds the item at the end of both.
LEMMA PushBatch ==
  ASSUME BatchInv, NEW i \in Items, push(i)
  PROVE  BatchInv'
<1> DEFINE x == Command("Item", i)
<1>1. /\ channel' = Append(channel, x) /\ accepted' = Append(accepted, i) /\ Len(channel) < Capacity
      /\ worker # "dead" /\ \A n \in DOMAIN accepted : accepted[n] # i
      /\ UNCHANGED <<kind, batch, worker, running, after, flush, executed, before>>
  BY DEF push, Room
<1>2. x \in Sent /\ x.op = "Item"
  BY DEF Sent, Command
<1>3. /\ channel \in Seq(Sent) /\ accepted \in Seq(Items) /\ begun \in Seq(Items)
      /\ UNCHANGED begun /\ before \in [Flushers -> Seq(Items)]
  BY <1>1, BegunTyped DEF BatchInv, BatchTyped, begun
<1> HIDE DEF x
<1>4. BatchTyped'
  BY <1>1, <1>2, <1>3 DEF BatchInv, BatchTyped
<1>5. Distinct(accepted)' /\ ItemsInOrder'
  <2>1. QueuedAfter(begun, accepted, channel) /\ Distinct(accepted)
    BY <1>1 DEF BatchInv, ItemsInOrder
  <2>2. Distinct(accepted') /\ QueuedAfter(begun, accepted', channel')
    BY <1>1, <1>3, <2>1, PushedLast DEF x
  <2>3. QED
    BY <1>3, <2>2 DEF ItemsInOrder, Distinct
<1>6. FlushCovers'
  BY <1>1 DEF BatchInv, FlushCovers
<1>7. FlushesWait'
  <2>1. ASSUME NEW p \in DOMAIN channel', channel'[p].op = "Flush"
        PROVE  /\ flush'[channel'[p].v] # "idle"
               /\ Ahead(before'[channel'[p].v], begun', accepted', channel', p)
    <3>1. p \in DOMAIN channel /\ channel'[p] = channel[p]
      BY <1>1, <1>2, <1>3, <2>1
    <3>2. channel[p] \in Sent /\ channel[p].v \in Flushers /\ before[channel[p].v] \in Seq(Items)
      BY <1>3, <2>1, <3>1 DEF Sent
    <3>3. flush[channel[p].v] # "idle" /\ Ahead(before[channel[p].v], begun, accepted, channel, p)
      BY <1>1, <2>1, <3>1 DEF BatchInv, FlushesWait
    <3>4. Ahead(before[channel[p].v], begun, accepted', channel', p)
      BY <1>1, <1>2, <1>3, <3>1, <3>2, <3>3, AheadLast
    <3>5. QED
      BY <1>1, <1>3, <3>1, <3>3, <3>4
  <2>2. ASSUME NEW y \in after', y.op = "Flush"
        PROVE  /\ flush'[y.v] # "idle"
               /\ Len(before'[y.v]) <= Len(accepted') /\ before'[y.v] = SubSeq(accepted', 1, Len(before'[y.v]))
               /\ Len(before'[y.v]) <= Len(executed') + Len(running')
    <3>1. /\ flush[y.v] # "idle" /\ y.v \in Flushers
          /\ Len(before[y.v]) <= Len(accepted) /\ before[y.v] = SubSeq(accepted, 1, Len(before[y.v]))
          /\ Len(before[y.v]) <= Len(executed) + Len(running)
      BY <1>1, <2>2 DEF BatchInv, FlushesWait, BatchTyped, Sent
    <3>2. before[y.v] \in Seq(Items) /\ Len(before[y.v]) \in Nat
      BY <1>3, <3>1
    <3>3. Len(before[y.v]) <= Len(accepted') /\ before[y.v] = SubSeq(accepted', 1, Len(before[y.v]))
      BY <1>1, <1>3, <3>1, <3>2
    <3>4. QED
      BY <1>1, <3>1, <3>3
  <2>3. QED
    BY <2>1, <2>2 DEF FlushesWait
<1>8. QED
  BY <1>4, <1>5, <1>6, <1>7 DEF BatchInv

\* Another command at the end of the channel: a flush that has everything accepted ahead of it, or
\* the end of the executor.
LEMMA SendBatch ==
  ASSUME BatchInv, NEW x \in Sent, x.op # "Item", channel' = Append(channel, x),
         Len(channel) < Capacity, worker # "dead",
         UNCHANGED <<kind, batch, worker, running, after, accepted, executed>>,
         \/ x.op = "Shutdown" /\ UNCHANGED <<flush, before>>
         \/ /\ x.op = "Flush" /\ flush[x.v] = "idle"
            /\ flush' = [flush EXCEPT ![x.v] = "waiting"] /\ before' = [before EXCEPT ![x.v] = accepted]
  PROVE  BatchInv'
<1>1. /\ channel \in Seq(Sent) /\ accepted \in Seq(Items) /\ begun \in Seq(Items)
      /\ UNCHANGED begun /\ before \in [Flushers -> Seq(Items)]
      /\ (x.op = "Flush" => x.v \in Flushers)
      /\ flush \in [Flushers -> {"idle", "waiting", "ok", "closed"}]
  BY BegunTyped DEF BatchInv, BatchTyped, begun, Sent
<1>8. /\ flush' \in [Flushers -> {"idle", "waiting", "ok", "closed"}] /\ before' \in [Flushers -> Seq(Items)]
      /\ \A f \in Flushers : /\ flush[f] # "idle" => flush'[f] = flush[f] /\ before'[f] = before[f]
                             /\ flush'[f] = "ok" => flush[f] = "ok"
      /\ x.op = "Flush" => flush'[x.v] # "idle" /\ before'[x.v] = accepted
  <2>1. CASE x.op = "Shutdown" /\ UNCHANGED <<flush, before>>
    BY <1>1, <2>1
  <2>2. CASE /\ x.op = "Flush" /\ flush[x.v] = "idle"
             /\ flush' = [flush EXCEPT ![x.v] = "waiting"] /\ before' = [before EXCEPT ![x.v] = accepted]
    <3>1. PICK g \in Flushers : g = x.v
      BY <1>1, <2>2
    <3>2. /\ flush[g] = "idle" /\ flush' = [flush EXCEPT ![g] = "waiting"]
          /\ before' = [before EXCEPT ![g] = accepted]
      BY <2>2, <3>1
    <3>3. QED
      BY <1>1, <3>1, <3>2
  <2>3. QED
    BY <2>1, <2>2
<1>9. channel' \in Seq(Sent) /\ Len(channel') <= Capacity /\ Len(channel') = Len(channel) + 1
  BY <1>1 DEF BatchInv, BatchTyped
<1>2. BatchTyped'
  BY <1>1, <1>8, <1>9 DEF BatchInv, BatchTyped
<1>3. Distinct(accepted)' /\ ItemsInOrder'
  <2>1. QueuedAfter(begun, accepted, channel) /\ Distinct(accepted)
    BY DEF BatchInv, ItemsInOrder
  <2>2. QueuedAfter(begun, accepted, channel')
    BY <1>1, <2>1, OtherLast
  <2>3. QED
    BY <1>1, <2>1, <2>2 DEF ItemsInOrder
<1>4. FlushCovers'
  <2>1. \A f \in Flushers : flush'[f] = "ok" => flush[f] = "ok" /\ before'[f] = before[f]
    BY <1>8
  <2>2. QED
    BY <2>1 DEF BatchInv, FlushCovers
<1>5. \A f \in Flushers : flush[f] # "idle" => flush'[f] # "idle" /\ before'[f] = before[f]
  BY <1>8
<1>6. FlushesWait'
  <2>1. ASSUME NEW p \in DOMAIN channel', channel'[p].op = "Flush"
        PROVE  /\ flush'[channel'[p].v] # "idle"
               /\ Ahead(before'[channel'[p].v], begun', accepted', channel', p)
    <3>1. CASE p \in DOMAIN channel
      <4>1. channel'[p] = channel[p]
        BY <1>1, <3>1
      <4>2. channel[p] \in Sent /\ channel[p].v \in Flushers /\ before[channel[p].v] \in Seq(Items)
        BY <1>1, <2>1, <3>1, <4>1 DEF Sent
      <4>3. flush[channel[p].v] # "idle" /\ Ahead(before[channel[p].v], begun, accepted, channel, p)
        BY <2>1, <3>1, <4>1 DEF BatchInv, FlushesWait
      <4>4. Ahead(before[channel[p].v], begun, accepted, channel', p)
        BY <1>1, <3>1, <4>2, <4>3, AheadLast
      <4>5. QED
        BY <1>1, <1>5, <4>1, <4>2, <4>3, <4>4
    <3>2. CASE p = Len(channel) + 1
      <4>1. channel'[p] = x /\ x.op = "Flush" /\ x.v \in Flushers
        BY <1>1, <2>1, <3>2
      <4>2. flush'[x.v] # "idle" /\ before'[x.v] = accepted
        BY <1>8, <4>1
      <4>3. Ahead(accepted, begun, accepted, channel', p)
        <5>1. QueuedAfter(begun, accepted, channel)
          BY DEF BatchInv, ItemsInOrder
        <5>2. \A q \in DOMAIN channel : q \in 1..(p - 1) /\ channel'[q] = channel[q]
          BY <1>1, <3>2
        <5>3. accepted = SubSeq(accepted, 1, Len(accepted)) /\ Len(accepted) \in Nat
          BY <1>1
        <5>4. \A n \in (Len(begun) + 1)..Len(accepted) :
                \E q \in DOMAIN channel : channel[q] = Command("Item", accepted[n])
          BY <5>1 DEF QueuedAfter
        <5>5. \A n \in (Len(begun) + 1)..Len(accepted) :
                \E q \in 1..(p - 1) : channel'[q] = Command("Item", accepted[n])
          BY <5>2, <5>4
        <5>6. QED
          BY <5>3, <5>5 DEF Ahead
      <4>4. QED
        BY <1>1, <4>1, <4>2, <4>3
    <3>3. QED
      BY <1>1, <3>1, <3>2
  <2>2. ASSUME NEW y \in after', y.op = "Flush"
        PROVE  /\ flush'[y.v] # "idle"
               /\ Len(before'[y.v]) <= Len(accepted') /\ before'[y.v] = SubSeq(accepted', 1, Len(before'[y.v]))
               /\ Len(before'[y.v]) <= Len(executed') + Len(running')
    <3>1. /\ flush[y.v] # "idle" /\ y.v \in Flushers
          /\ Len(before[y.v]) <= Len(accepted) /\ before[y.v] = SubSeq(accepted, 1, Len(before[y.v]))
          /\ Len(before[y.v]) <= Len(executed) + Len(running)
      BY <2>2 DEF BatchInv, FlushesWait, BatchTyped, Sent
    <3>2. QED
      BY <1>5, <3>1
  <2>3. QED
    BY <2>1, <2>2 DEF FlushesWait
<1>7. QED
  BY <1>2, <1>3, <1>4, <1>6 DEF BatchInv

\* The callers: push, flush, shutdown and drop.
LEMMA CalledBatch == BatchInv /\ Called => BatchInv'
<1> SUFFICES ASSUME BatchInv, Called PROVE BatchInv'
  OBVIOUS
<1>1. ASSUME NEW f \in Flushers, flush_send(f) PROVE BatchInv'
  <2>1. CASE Room /\ channel' = Append(channel, Command("Flush", f))
             /\ flush' = [flush EXCEPT ![f] = "waiting"] /\ before' = [before EXCEPT ![f] = accepted]
    <3> DEFINE x == Command("Flush", f)
    <3>1. x \in Sent /\ x.op = "Flush" /\ x.v = f
      BY DEF Sent, Command
    <3>2. /\ flush[f] = "idle" /\ worker # "dead" /\ Len(channel) < Capacity
          /\ UNCHANGED <<kind, batch, worker, running, after, accepted, executed>>
      BY <1>1, <2>1 DEF flush_send, Room
    <3> HIDE DEF x
    <3>3. channel' = Append(channel, x) /\ x.op # "Item"
      BY <2>1, <3>1 DEF x
    <3>4. QED
      BY <2>1, <3>1, <3>2, <3>3, SendBatch
  <2>2. CASE flush' = [flush EXCEPT ![f] = "closed"] /\ UNCHANGED <<channel, before>>
    <3>1. flush[f] = "idle" /\ UNCHANGED <<kind, batch, worker, running, after, accepted, executed>>
          /\ UNCHANGED begun
      BY <1>1, <2>2 DEF flush_send, begun
    <3>2. \A g \in Flushers : flush'[g] = (IF g = f THEN "closed" ELSE flush[g])
      BY <2>2 DEF BatchInv, BatchTyped
    <3>3. BatchTyped' /\ Distinct(accepted)' /\ ItemsInOrder' /\ FlushCovers'
      BY <2>2, <3>1, <3>2 DEF BatchInv, BatchTyped, Distinct, ItemsInOrder, FlushCovers
    <3>4. FlushesWait'
      <4>1. \A p \in DOMAIN channel : channel[p].op = "Flush" => channel[p].v \in Flushers
        BY DEF BatchInv, BatchTyped, Sent
      <4>2. \A x \in after : x.op = "Flush" => x.v \in Flushers
        BY DEF BatchInv, BatchTyped, Sent
      <4>3. QED
        BY <2>2, <3>1, <3>2, <4>1, <4>2 DEF BatchInv, FlushesWait
    <3>5. QED
      BY <3>3, <3>4 DEF BatchInv
  <2>3. QED
    BY <1>1, <2>1, <2>2 DEF flush_send
<1>2. CASE shutdown \/ drop
  <2> DEFINE x == Command("Shutdown", "owner")
  <2>1. x \in Sent /\ x.op = "Shutdown"
    BY DEF Sent, Command
  <2>2. UNCHANGED <<kind, batch, worker, running, after, flush, accepted, executed, before>>
    BY <1>2 DEF shutdown, drop
  <2> HIDE DEF x
  <2>3. CASE channel' = Append(channel, x) /\ Room
    BY <2>1, <2>2, <2>3, SendBatch DEF Room
  <2>4. CASE UNCHANGED channel
    BY <2>2, <2>4 DEF BatchInv, BatchTyped, Distinct, FlushesWait, ItemsInOrder, FlushCovers, begun
  <2>5. QED
    BY <1>2, <2>3, <2>4 DEF shutdown, drop, x
<1>3. QED
  BY <1>1, <1>2, PushBatch DEF Called

-----------------------------------------------------------------------------

\* What is left in the channel once the worker has taken its first command.
LEMMA TakenBatch ==
  ASSUME BatchInv, worker # "dead", channel # <<>>, channel' = Tail(channel),
         UNCHANGED <<flush, before, accepted>>, begun' \in Seq(Items),
         \/ Head(channel).op # "Item" /\ UNCHANGED begun
         \/ Head(channel).op = "Item" /\ begun' = Append(begun, Head(channel).v)
  PROVE  /\ QueuedAfter(begun', accepted', channel')
         /\ \A p \in DOMAIN channel' : channel'[p].op = "Flush" =>
              /\ flush'[channel'[p].v] # "idle"
              /\ Ahead(before'[channel'[p].v], begun', accepted', channel', p)
<1>1. /\ channel \in Seq(Sent) /\ accepted \in Seq(Items) /\ begun \in Seq(Items)
      /\ before \in [Flushers -> Seq(Items)] /\ Distinct(accepted)
      /\ QueuedAfter(begun, accepted, channel)
  BY BegunTyped DEF BatchInv, BatchTyped, ItemsInOrder
<1>2. Head(channel) \in Sent /\ Tail(channel) \in Seq(Sent)
  BY <1>1
<1>3. Head(channel).op = "Item" =>
        Len(begun) < Len(accepted) /\ Head(channel).v = accepted[Len(begun) + 1]
  BY <1>1, NextTaken
<1>4. QueuedAfter(begun', accepted, channel')
  <2>1. CASE Head(channel).op # "Item" /\ UNCHANGED begun
    BY <1>1, <2>1, OtherTaken
  <2>2. CASE Head(channel).op = "Item" /\ begun' = Append(begun, Head(channel).v)
    BY <1>1, <2>2, NextTaken
  <2>3. QED
    BY <2>1, <2>2
<1>5. ASSUME NEW p \in DOMAIN channel', channel'[p].op = "Flush"
      PROVE  /\ flush'[channel'[p].v] # "idle"
             /\ Ahead(before'[channel'[p].v], begun', accepted', channel', p)
  <2>1. p + 1 \in DOMAIN channel /\ channel'[p] = channel[p + 1] /\ p \in DOMAIN Tail(channel)
    BY <1>1, <1>2
  <2>2. channel[p + 1] \in Sent /\ channel[p + 1].v \in Flushers
    BY <1>1, <1>5, <2>1 DEF Sent
  <2>3. /\ flush[channel[p + 1].v] # "idle" /\ before[channel[p + 1].v] \in Seq(Items)
        /\ Ahead(before[channel[p + 1].v], begun, accepted, channel, p + 1)
    BY <1>1, <1>5, <2>1, <2>2 DEF BatchInv, FlushesWait
  <2>4. Ahead(before[channel[p + 1].v], begun', accepted, Tail(channel), p)
    BY <1>1, <1>3, <2>1, <2>3, AheadTaken
  <2>5. QED
    BY <2>1, <2>3, <2>4
<1>6. QED
  BY <1>4, <1>5

\* A job's items are a run of the items begun.
LEMMA Gathered ==
  ASSUME NEW done \in Seq(Items), NEW some \in Seq(Items), NEW i \in Items
  PROVE  /\ done \o <<>> = done
         /\ done \o Append(some, i) = Append(done \o some, i)
<1>1. done \o <<>> = done
  OBVIOUS
<1> DEFINE one == done \o Append(some, i)
           two == Append(done \o some, i)
<1>2. one \in Seq(Items) /\ two \in Seq(Items) /\ Len(one) = Len(two)
  OBVIOUS
<1>3. \A n \in 1..Len(one) : one[n] = two[n]
  OBVIOUS
<1> HIDE DEF one, two
<1>4. one = two
  BY <1>2, <1>3, SeqEqual
<1>5. QED
  BY <1>1, <1>4 DEF one, two

\* An item is gathered, or fills the batch and starts the job.
LEMMA TakeItemBatch == BatchInv /\ TakeItem => BatchInv'
<1> SUFFICES ASSUME BatchInv, TakeItem PROVE BatchInv'
  OBVIOUS
<1> DEFINE i == Head(channel).v
<1>1. /\ worker = "select" /\ channel # <<>> /\ Head(channel).op = "Item" /\ channel' = Tail(channel)
      /\ UNCHANGED <<kind, flush, accepted, executed, before>>
  BY DEF TakeItem
<1>2. /\ channel \in Seq(Sent) /\ Head(channel) \in Sent /\ i \in Items /\ running = <<>> /\ after = {}
      /\ channel' \in Seq(Sent) /\ Len(channel') <= Capacity
  <2>1. channel \in Seq(Sent) /\ Head(channel) \in Sent /\ running = <<>> /\ after = {}
    BY <1>1 DEF BatchInv, BatchTyped
  <2>2. channel' \in Seq(Sent) /\ Len(channel') <= Capacity
    BY <1>1, <2>1 DEF BatchInv, BatchTyped
  <2>3. QED
    BY <1>1, <2>1, <2>2 DEF Sent
<1>3. \/ batch' = Append(batch, i) /\ UNCHANGED <<worker, running, after>>
      \/ worker' = "running" /\ running' = Append(batch, i) /\ after' = {} /\ batch' = <<>>
  BY DEF TakeItem, Start
<1>4. executed \in Seq(Items) /\ batch \in Seq(Items)
  BY DEF BatchInv, BatchTyped
<1> HIDE DEF i
<1>5. /\ worker' \in {"select", "running"} /\ after' = {}
      /\ running' \in Seq(Items) /\ batch' \in Seq(Items)
      /\ worker' # "running" => running' = <<>>
  <2>1. Append(batch, i) \in Seq(Items) /\ <<>> \in Seq(Items)
    BY <1>2, <1>4
  <2>2. QED
    BY <1>1, <1>2, <1>3, <1>4, <2>1
<1>6. BatchTyped'
  BY <1>1, <1>2, <1>5 DEF BatchInv, BatchTyped
<1>7. begun' = Append(begun, i)
  <2>1. begun = executed \o batch /\ executed \o <<>> = executed
    BY <1>2, <1>4, Gathered DEF begun
  <2>2. executed \o Append(batch, i) = Append(executed \o batch, i)
    BY <1>2, <1>4, Gathered
  <2>3. (executed \o Append(batch, i)) \o <<>> = executed \o Append(batch, i)
    BY <1>2, <1>4
  <2>4. CASE batch' = Append(batch, i) /\ UNCHANGED <<worker, running, after>>
    BY <1>1, <1>2, <2>1, <2>2, <2>4 DEF begun
  <2>5. CASE running' = Append(batch, i) /\ batch' = <<>>
    BY <1>1, <2>1, <2>2, <2>3, <2>5 DEF begun
  <2>6. QED
    BY <1>3, <2>4, <2>5
<1>8. begun' \in Seq(Items)
  BY <1>2, <1>7, BegunTyped DEF BatchInv
<1>9. /\ QueuedAfter(begun', accepted', channel')
      /\ \A p \in DOMAIN channel' : channel'[p].op = "Flush" =>
           /\ flush'[channel'[p].v] # "idle"
           /\ Ahead(before'[channel'[p].v], begun', accepted', channel', p)
  BY <1>1, <1>7, <1>8, TakenBatch DEF i
<1>10. Distinct(accepted)' /\ ItemsInOrder' /\ FlushCovers' /\ FlushesWait'
  BY <1>1, <1>5, <1>9 DEF BatchInv, Distinct, ItemsInOrder, FlushCovers, FlushesWait
<1>11. QED
  BY <1>6, <1>10 DEF BatchInv

\* What was gathered becomes the job; the flush that asked for it is covered by then.
LEMMA StartBatch ==
  ASSUME BatchInv, worker = "select", worker' = "running", running' = batch, batch' = <<>>,
         after' \in SUBSET Sent, UNCHANGED <<kind, flush, accepted, executed, before>>,
         \/ UNCHANGED channel /\ \A x \in after' : x.op # "Flush"
         \/ /\ channel # <<>> /\ channel' = Tail(channel) /\ Head(channel).op # "Item"
            /\ \A x \in after' : x.op = "Flush" => x = Head(channel)
  PROVE  BatchInv'
<1>1. /\ channel \in Seq(Sent) /\ running = <<>> /\ after = {} /\ executed \in Seq(Items)
      /\ batch \in Seq(Items) /\ before \in [Flushers -> Seq(Items)] /\ accepted \in Seq(Items)
  BY DEF BatchInv, BatchTyped
<1>2. channel' \in Seq(Sent) /\ Len(channel') <= Capacity
  <2>1. Len(channel) <= Capacity
    BY DEF BatchInv, BatchTyped
  <2>2. channel # <<>> => Tail(channel) \in Seq(Sent) /\ Len(Tail(channel)) <= Capacity
    BY <1>1, <2>1 DEF BatchInv, BatchTyped
  <2>3. QED
    BY <1>1, <2>1, <2>2
<1>3. BatchTyped'
  BY <1>1, <1>2 DEF BatchInv, BatchTyped
<1>4. UNCHANGED begun /\ begun = executed \o batch /\ begun \in Seq(Items)
  <2>1. executed \o <<>> = executed /\ (executed \o batch) \o <<>> = executed \o batch
    BY <1>1
  <2>2. QED
    BY <1>1, <2>1 DEF begun
<1>5. /\ QueuedAfter(begun', accepted', channel')
      /\ \A p \in DOMAIN channel' : channel'[p].op = "Flush" =>
           /\ flush'[channel'[p].v] # "idle"
           /\ Ahead(before'[channel'[p].v], begun', accepted', channel', p)
  <2>1. CASE UNCHANGED channel
    BY <1>4, <2>1 DEF BatchInv, FlushesWait, ItemsInOrder
  <2>2. CASE channel # <<>> /\ channel' = Tail(channel) /\ Head(channel).op # "Item"
    BY <1>4, <2>2, TakenBatch
  <2>3. QED
    BY <2>1, <2>2
<1>6. ASSUME NEW x \in after', x.op = "Flush"
      PROVE  /\ flush[x.v] # "idle"
             /\ Len(before[x.v]) <= Len(accepted) /\ before[x.v] = SubSeq(accepted, 1, Len(before[x.v]))
             /\ Len(before[x.v]) <= Len(executed) + Len(batch)
  <2>1. channel # <<>> /\ x = Head(channel)
    BY <1>6
  <2>2. 1 \in DOMAIN channel /\ channel[1] = x /\ x \in Sent /\ x.v \in Flushers
    BY <1>1, <1>6, <2>1 DEF Sent
  <2>3. flush[x.v] # "idle" /\ Ahead(before[x.v], begun, accepted, channel, 1)
    BY <1>6, <2>2 DEF BatchInv, FlushesWait
  <2>4. before[x.v] \in Seq(Items) /\ Len(before[x.v]) \in Nat /\ Len(begun) = Len(executed) + Len(batch)
        /\ Len(executed) \in Nat /\ Len(batch) \in Nat
    BY <1>1, <1>4, <2>2
  <2>5. Len(before[x.v]) <= Len(begun)
    BY <2>3, <2>4 DEF Ahead
  <2>6. QED
    BY <2>3, <2>4, <2>5 DEF Ahead
<1>7. FlushesWait'
  BY <1>5, <1>6 DEF FlushesWait
<1>8. Distinct(accepted)' /\ ItemsInOrder' /\ FlushCovers'
  BY <1>5 DEF BatchInv, Distinct, ItemsInOrder, FlushCovers
<1>9. QED
  BY <1>3, <1>7, <1>8 DEF BatchInv

\* The job's items are executed, and with them all that its flush has to cover.
LEMMA JobEndsBatch == BatchInv /\ JobEnds => BatchInv'
<1> SUFFICES ASSUME BatchInv, JobEnds PROVE BatchInv'
  OBVIOUS
<1>1. /\ worker = "running" /\ worker' \in {"select", "done"} /\ executed' = executed \o running
      /\ running' = <<>> /\ after' = {} /\ UNCHANGED <<kind, channel, batch, accepted, before>>
      /\ flush' = [f \in Flushers |-> IF Command("Flush", f) \in after THEN "ok" ELSE flush[f]]
  BY DEF JobEnds
<1>2. /\ executed \in Seq(Items) /\ running \in Seq(Items) /\ batch \in Seq(Items) /\ accepted \in Seq(Items)
      /\ before \in [Flushers -> Seq(Items)] /\ channel \in Seq(Sent)
      /\ flush \in [Flushers -> {"idle", "waiting", "ok", "closed"}]
  BY DEF BatchInv, BatchTyped
<1>3. /\ executed' \in Seq(Items) /\ Len(executed') = Len(executed) + Len(running)
      /\ Len(executed) \in Nat /\ Len(running) \in Nat
      /\ \A n \in 1..Len(executed) : executed'[n] = executed[n]
  BY <1>1, <1>2
<1>4. UNCHANGED begun /\ begun = executed' \o batch
  <2>1. executed' \o <<>> = executed'
    BY <1>3
  <2>2. QED
    BY <1>1, <2>1 DEF begun
<1>5. BatchTyped'
  <2>1. flush' \in [Flushers -> {"idle", "waiting", "ok", "closed"}]
    BY <1>1, <1>2
  <2>2. QED
    BY <1>1, <1>2, <1>3, <2>1 DEF BatchInv, BatchTyped
<1>6. Distinct(accepted)' /\ ItemsInOrder'
  BY <1>1, <1>4 DEF BatchInv, Distinct, ItemsInOrder
<1>7. \A n \in 1..Len(executed') : n \in 1..Len(accepted) /\ executed'[n] = accepted[n]
  <2>1. Len(begun) <= Len(accepted) /\ begun = SubSeq(accepted, 1, Len(begun))
    BY <1>1 DEF BatchInv, ItemsInOrder, QueuedAfter
  <2>2. Len(begun) = Len(executed') + Len(batch) /\ Len(batch) \in Nat
        /\ \A n \in 1..Len(executed') : begun[n] = executed'[n]
    <3>1. /\ Len(executed' \o batch) = Len(executed') + Len(batch) /\ Len(batch) \in Nat
          /\ \A n \in 1..Len(executed') : (executed' \o batch)[n] = executed'[n]
      <4>1. executed' \in Seq(Items) /\ batch \in Seq(Items)
        BY <1>2, <1>3
      <4>2. QED
        BY <4>1, ConcatProperties
    <3>2. QED
      BY <1>4, <3>1, Zenon
  <2>3. \A n \in 1..Len(begun) : n \in 1..Len(accepted) /\ begun[n] = accepted[n]
    BY <1>2, <2>1
  <2>4. QED
    BY <1>2, <1>3, <2>2, <2>3
<1>8. FlushCovers'
  <2>1. ASSUME NEW f \in Flushers, flush'[f] = "ok"
        PROVE  Len(before[f]) <= Len(executed') /\ before[f] = SubSeq(executed', 1, Len(before[f]))
    <3>1. before[f] \in Seq(Items) /\ Len(before[f]) \in Nat
      BY <1>2
    <3>2. CASE flush[f] = "ok"
      <4>1. Len(before[f]) <= Len(executed) /\ before[f] = SubSeq(executed, 1, Len(before[f]))
        BY <3>2 DEF BatchInv, FlushCovers
      <4>2. QED
        BY <1>2, <1>3, <3>1, <4>1
    <3>3. CASE Command("Flush", f) \in after
      <4>1. /\ Len(before[f]) <= Len(executed') /\ Len(before[f]) <= Len(accepted)
            /\ before[f] = SubSeq(accepted, 1, Len(before[f]))
        BY <1>3, <3>3 DEF BatchInv, FlushesWait, Command
      <4>2. QED
        BY <1>2, <1>3, <1>7, <3>1, <4>1
    <3>4. QED
      BY <1>1, <2>1, <3>2, <3>3
  <2>2. QED
    BY <1>1, <2>1 DEF FlushCovers
<1>9. FlushesWait'
  <2>1. ASSUME NEW p \in DOMAIN channel, channel[p].op = "Flush"
        PROVE  /\ flush'[channel[p].v] # "idle"
               /\ Ahead(before[channel[p].v], begun, accepted, channel, p)
    <3>1. channel[p].v \in Flushers
      BY <1>2, <2>1 DEF Sent
    <3>2. flush[channel[p].v] # "idle" /\ Ahead(before[channel[p].v], begun, accepted, channel, p)
      BY <1>1, <2>1 DEF BatchInv, FlushesWait
    <3>3. QED
      BY <1>1, <3>1, <3>2
  <2>2. QED
    BY <1>1, <1>4, <2>1 DEF FlushesWait
<1>10. QED
  BY <1>5, <1>6, <1>8, <1>9 DEF BatchInv

\* A panic empties the channel and answers everyone; nothing more is executed.
LEMMA JobPanicsBatch == BatchInv /\ JobPanics => BatchInv'
<1> SUFFICES ASSUME BatchInv, JobPanics PROVE BatchInv'
  OBVIOUS
<1>1. /\ worker' = "dead" /\ running' = <<>> /\ after' = {} /\ channel' = <<>>
      /\ flush' = [f \in Flushers |-> IF flush[f] = "waiting" THEN "closed" ELSE flush[f]]
      /\ UNCHANGED <<kind, batch, accepted, executed, before>>
  BY DEF JobPanics
<1>2. flush' \in [Flushers -> {"idle", "waiting", "ok", "closed"}]
  BY <1>1 DEF BatchInv, BatchTyped
<1>3. BatchTyped'
  BY <1>1, <1>2 DEF BatchInv, BatchTyped
<1>4. \A f \in Flushers : flush'[f] = "ok" => flush[f] = "ok"
  BY <1>1
<1>5. Distinct(accepted)' /\ ItemsInOrder' /\ FlushesWait'
  BY <1>1 DEF BatchInv, Distinct, ItemsInOrder, FlushesWait
<1>6. FlushCovers'
  BY <1>1, <1>4 DEF BatchInv, FlushCovers
<1>7. QED
  BY <1>3, <1>5, <1>6 DEF BatchInv

\* One step of either executor.
LEMMA NextBatch == BatchInv /\ [Next]_vars => BatchInv'
<1> SUFFICES ASSUME BatchInv, [Next]_vars PROVE BatchInv'
  OBVIOUS
<1>1. CASE TakeFlush
  <2>1. /\ worker = "select" /\ channel # <<>> /\ Head(channel).op = "Flush" /\ channel' = Tail(channel)
        /\ worker' = "running" /\ running' = batch /\ batch' = <<>> /\ after' = {Head(channel)}
        /\ UNCHANGED <<kind, flush, accepted, executed, before>>
    BY <1>1 DEF TakeFlush, Start
  <2>2. Head(channel) \in Sent
    BY <2>1 DEF BatchInv, BatchTyped
  <2>3. QED
    BY <2>1, <2>2, StartBatch
<1>2. CASE TakeEnd
  <2> DEFINE x == Command("Shutdown", "owner")
  <2>1. x \in Sent /\ x.op = "Shutdown"
    BY DEF Sent, Command
  <2>2. /\ worker = "select" /\ worker' = "running" /\ running' = batch /\ batch' = <<>> /\ after' = {x}
        /\ UNCHANGED <<kind, flush, accepted, executed, before>>
        /\ \/ UNCHANGED channel
           \/ channel # <<>> /\ channel' = Tail(channel) /\ Head(channel).op = "Shutdown"
    BY <1>2 DEF TakeEnd, Start
  <2> HIDE DEF x
  <2>3. QED
    BY <2>1, <2>2, StartBatch
<1>3. CASE Tick
  <2>1. /\ worker = "select" /\ worker' = "running" /\ running' = batch /\ batch' = <<>> /\ after' = {}
        /\ UNCHANGED <<kind, channel, flush, accepted, executed, before>>
    BY <1>3 DEF Tick, Start
  <2>2. QED
    BY <2>1, StartBatch
<1>4. CASE UNCHANGED vars
  BY <1>4 DEF vars, BatchInv, BatchTyped, Distinct, FlushesWait, ItemsInOrder, FlushCovers,
    begun
<1>5. QED
  BY <1>1, <1>2, <1>3, <1>4, CalledBatch, TakeItemBatch, JobEndsBatch, JobPanicsBatch
  DEF Next, BatchCalls, ChunkCalls, run_worker, run_chunk_worker, Worker

\* The invariant holds of every type the model declares.
LEMMA BatchTypes == BatchInv => TypeOK
BY DEF BatchInv, BatchTyped, TypeOK
=============================================================================
