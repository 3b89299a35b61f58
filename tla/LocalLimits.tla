----------------------------- MODULE LocalLimits ----------------------------
(***************************************************************************)
(* The in-process limiters: TokenLimiter and PeriodLimiter of              *)
(* core/src/limit.rs, RollingWindow of core/src/rolling.rs and the rolling *)
(* policy of core/src/breaker.rs.  A behaviour uses one of them (kind).    *)
(* Concurrent callers read a clock or a ratio, wait for a lock or an       *)
(* atomic, and decide on what they read.  Time is counted in ticks; the    *)
(* random draw of the breaker may go either way.                           *)
(***************************************************************************)
EXTENDS Naturals, Sequences, FiniteSets, FiniteSetsExt

CONSTANTS
  Callers,
  Rate, Burst,          \* TokenLimiter: tokens per tick, most tokens held
  Period, Quota,        \* PeriodLimiter: ticks per window, takes per window
  BucketCount, Width,   \* RollingWindow and RollingBreaker: buckets, ticks per bucket
  Minimum,              \* RollingBreaker: minimum_requests
  Sensitivity,          \* RollingBreaker: twice the acceptance multiplier
  ProbeInterval,        \* RollingBreaker: probe_interval
  MaxClock, MaxEvents   \* bounds

VARIABLES
  kind,        \* "token", "period", "window" or "breaker"
  clock,
  caller,      \* each caller: where it is and what it has read
  bucket,      \* TokenLimiter: [available, last_refill]
  window,      \* PeriodLimiter: [used, window] of the key, an Option
  current_started,
  buckets,     \* the events each bucket holds, the oldest bucket first
  sequence,    \* drop_sequence
  events,      \* history: every event recorded, [at, n]
  seen,        \* history: the last snapshot, [at, ids]
  promise,     \* history: the last refusal's retry_after, an Option
  streak,      \* history: rejections since a draw let a call through
  late         \* history: a take entered the lock with an older window

rolling == <<current_started, buckets, sequence>>
history == <<events, seen, promise, streak, late>>
vars == <<kind, clock, caller, bucket, window, current_started, buckets, sequence,
          events, seen, promise, streak, late>>

None == {}
Some(v) == {v}
Smaller(a, b) == IF a < b THEN a ELSE b
\* ticks to earn n tokens, rounded up to whole ticks
Earning(n) == (n + Rate - 1) \div Rate

-----------------------------------------------------------------------------
(* TokenLimiter                                                            *)

\* Fault: what a refused take refilled is earned again.
refill_twice ==
  [available |-> Smaller(Burst, bucket.available + (clock - bucket.last_refill) * Rate),
   last_refill |-> bucket.last_refill]

refill ==
  [available |-> Smaller(Burst, bucket.available + (clock - bucket.last_refill) * Rate),
   last_refill |-> clock]

\* More than the burst is refused for ever, before the bucket is looked at.
token_take(permits) ==
  /\ kind = "token" /\ Len(events) < MaxEvents
  /\ IF permits > Burst THEN UNCHANGED <<bucket, events, promise>>
     ELSE IF refill.available >= permits
     THEN /\ bucket' = [refill EXCEPT !.available = @ - permits]
          /\ events' = Append(events, [at |-> clock, n |-> permits])
          /\ promise' = None
     ELSE /\ bucket' = refill /\ UNCHANGED events
          /\ promise' = Some([at |-> clock + Earning(permits - refill.available), permits |-> permits])
  /\ UNCHANGED <<kind, clock, caller, window, current_started, buckets, sequence, seen, streak, late>>

-----------------------------------------------------------------------------
(* PeriodLimiter, one key                                                  *)

\* the window is computed before the lock is taken
period_read(c) ==
  /\ kind = "period" /\ caller[c].at = "idle"
  /\ caller' = [caller EXCEPT ![c] = [at |-> "locking", read |-> clock \div Period]]
  /\ UNCHANGED <<kind, clock, bucket, window, events>> /\ UNCHANGED rolling
  /\ UNCHANGED <<seen, promise, streak, late>>

\* entry(key).or_insert, and a fresh count when the stored window is another one
Entered(w) ==
  IF \E x \in window : x.window = w THEN CHOOSE x \in window : TRUE ELSE [used |-> 0, window |-> w]

\* Fault: one take too many.
exhausted_late(e) == e.used > Quota
exhausted(e) == e.used >= Quota

period_take(c) ==
  LET w == caller[c].read
      e == Entered(w) IN
  /\ kind = "period" /\ caller[c].at = "locking" /\ Len(events) < MaxEvents
  /\ caller' = [caller EXCEPT ![c] = [at |-> "idle", read |-> 0]]
  /\ late' = (late \/ \E x \in window : x.window > w)
  /\ IF exhausted(e) THEN window' = Some(e) /\ UNCHANGED events
     ELSE window' = Some([e EXCEPT !.used = @ + 1]) /\ events' = Append(events, [at |-> w, n |-> 1])
  /\ UNCHANGED <<kind, clock, bucket, seen, promise, streak>> /\ UNCHANGED rolling

\* clear gives the key its whole quota again
period_clear ==
  /\ kind = "period" /\ window # None /\ window' = None /\ events' = <<>>
  /\ UNCHANGED <<kind, clock, caller, bucket, seen, promise, streak, late>> /\ UNCHANGED rolling

-----------------------------------------------------------------------------
(* RollingWindow and the buckets of RollingBreaker                         *)

Fresh(n) == [i \in 1..n |-> {}]
\* pop_front while there are too many
Kept(s) == IF Len(s) > BucketCount THEN SubSeq(s, Len(s) - BucketCount + 1, Len(s)) ELSE s

\* Fault: only one bucket is pushed, however many have passed.
rotate_once ==
  LET n == (clock - current_started) \div Width IN
  IF n = 0 THEN [buckets |-> buckets, started |-> current_started]
  ELSE [buckets |-> Kept(Append(buckets, {})), started |-> current_started + Width * n]

\* RollingWindow::rotate
rotate ==
  LET n == (clock - current_started) \div Width IN
  IF n = 0 THEN [buckets |-> buckets, started |-> current_started]
  ELSE IF n >= BucketCount THEN [buckets |-> Fresh(1), started |-> clock]
  ELSE [buckets |-> Kept(buckets \o Fresh(n)), started |-> current_started + Width * n]
\* RollingBreaker::rotate
rotate_outcomes == rotate

Into(r) == current_started' = r.started /\ buckets' = [r.buckets EXCEPT ![Len(r.buckets)] = @ \cup {Len(events) + 1}]
Ids(r) == UNION {r.buckets[i] : i \in 1..Len(r.buckets)}

record(value) ==
  /\ kind = "window" /\ Len(events) < MaxEvents /\ Into(rotate)
  /\ events' = Append(events, [at |-> clock, n |-> value])
  /\ UNCHANGED <<kind, clock, caller, bucket, window, sequence, seen, promise, streak, late>>
snapshot ==
  /\ kind = "window" /\ buckets' = rotate.buckets /\ current_started' = rotate.started
  /\ seen' = [at |-> clock, ids |-> Ids(rotate)]
  /\ UNCHANGED <<kind, clock, caller, bucket, window, sequence, events, promise, streak, late>>
reset ==
  /\ kind = "window" /\ current_started' = clock /\ buckets' = Fresh(1)
  /\ events' = <<>> /\ seen' = [at |-> clock, ids |-> {}]
  /\ UNCHANGED <<kind, clock, caller, bucket, window, sequence, promise, streak, late>>

-----------------------------------------------------------------------------
(* RollingBreaker; an event's n is 1 when the call was accepted            *)

\* is the drop ratio positive: total - minimum_requests > sensitivity * accepted
Dropping(ids) ==
  LET accepted == Cardinality({i \in ids : events[i].n = 1}) IN
  2 * Cardinality(ids) > 2 * Minimum + Sensitivity * accepted

\* should_drop looks at the history under the lock ...
history_read(c) ==
  /\ kind = "breaker" /\ caller[c].at = "idle"
  /\ buckets' = rotate_outcomes.buckets /\ current_started' = rotate_outcomes.started
  /\ seen' = [at |-> clock, ids |-> Ids(rotate_outcomes)]
  /\ caller' = [caller EXCEPT ![c] =
       [at |-> IF Dropping(Ids(rotate_outcomes)) THEN "drawing" ELSE "admitted", read |-> 0]]
  /\ streak' = IF Dropping(Ids(rotate_outcomes)) THEN streak ELSE 0
  /\ UNCHANGED <<kind, clock, bucket, window, sequence, events, promise, late>>

\* Fault: the draw comes first and the probe is due only when it spares the call.
Draws_first(s) == {"idle", "admitted"}
\* every probe_interval-th call is let through whatever the draw
Draws(s) == IF s % ProbeInterval = 0 THEN {"admitted"} ELSE {"idle", "admitted"}

\* ... and takes a number in a separate step.
should_drop(c) ==
  /\ kind = "breaker" /\ caller[c].at = "drawing"
  /\ sequence' = (sequence + 1) % ProbeInterval
  /\ \E to \in Draws(sequence + 1) :
       /\ caller' = [caller EXCEPT ![c].at = to]
       /\ streak' = IF to = "idle" THEN streak + 1 ELSE 0
  /\ UNCHANGED <<kind, clock, bucket, window, current_started, buckets, events, seen, promise, late>>

\* The permit's outcome: a cancellation is not recorded.
record_outcome(c) ==
  /\ kind = "breaker" /\ caller[c].at = "admitted"
  /\ caller' = [caller EXCEPT ![c].at = "idle"]
  /\ \/ UNCHANGED <<current_started, buckets, events>>
     \/ /\ Len(events) < MaxEvents /\ Into(rotate_outcomes)
        /\ \E ok \in 0..1 : events' = Append(events, [at |-> clock, n |-> ok])
  /\ UNCHANGED <<kind, clock, bucket, window, sequence, seen, promise, streak, late>>

-----------------------------------------------------------------------------
Tick ==
  /\ clock < MaxClock /\ clock' = clock + 1
  /\ UNCHANGED <<kind, caller, bucket, window, current_started, buckets, sequence>> /\ UNCHANGED history

\* TokenLimiter::new starts with a full bucket, PeriodLimiter::new without a window.
new_token == bucket = [available |-> Burst, last_refill |-> 0]
new_period == window = None

Init ==
  /\ kind \in {"token", "period", "window", "breaker"} /\ clock = 0
  /\ caller = [c \in Callers |-> [at |-> "idle", read |-> 0]]
  /\ new_token /\ new_period
  /\ current_started = 0 /\ buckets = Fresh(1) /\ sequence = 0
  /\ events = <<>> /\ seen = [at |-> 0, ids |-> {}] /\ promise = None /\ streak = 0 /\ late = FALSE
Next ==
  \/ \E n \in 1..(Burst + 1) : token_take(n)
  \/ \E c \in Callers : period_read(c) \/ period_take(c) \/ history_read(c) \/ should_drop(c) \/ record_outcome(c)
  \/ period_clear \/ snapshot \/ reset \/ Tick
  \/ \E v \in 1..2 : record(v)
Spec == Init /\ [][Next]_vars

-----------------------------------------------------------------------------
TypeOK ==
  /\ clock \in 0..MaxClock /\ sequence \in 0..(ProbeInterval - 1) /\ Len(buckets) \in 1..BucketCount
  /\ bucket.available \in 0..Burst /\ \A x \in window : x.used \in Nat

\* Between any two grants TokenLimiter lets through at most its burst and what the
\* time between them earns, and a caller it refused finds its permits when it
\* comes back after retry_after and nobody was served in between.
RateKept ==
  kind = "token" =>
    /\ \A i \in 1..Len(events) : \A j \in i..Len(events) :
         MapThenSumSet(LAMBDA x : events[x].n, i..j) <= Burst + Rate * (events[j].at - events[i].at)
    /\ \A p \in promise : clock >= p.at => refill.available >= p.permits

\* PeriodLimiter lets a key through at most Quota times per window as long as the
\* takes enter its lock in the order of the windows they computed before it.
QuotaInOrder ==
  kind = "period" /\ ~late =>
    \A w \in 0..MaxClock : Cardinality({i \in 1..Len(events) : events[i].at = w}) <= Quota

\* A rolling window forgets an event when it is BucketCount buckets old and never
\* while it is younger than all buckets but one, whatever gaps lie between calls;
\* so the rolling breaker rejects on recent outcomes only.
WindowHonest ==
  kind \in {"window", "breaker"} =>
    \A i \in 1..Len(events) :
      /\ i \in seen.ids => seen.at - events[i].at < BucketCount * Width
      /\ i \notin seen.ids /\ seen.at > events[i].at => seen.at - events[i].at > (BucketCount - 1) * Width

\* Fewer than ProbeInterval calls in a row are rejected, so that recovery always
\* receives a probe, although callers look at the ratio and draw in separate steps.
ProbesBounded == streak < ProbeInterval
=============================================================================
