------------------------- MODULE RedisPeriodLimiter -------------------------
(***************************************************************************)
(* The Redis-backed fixed-window limiter of core/src/limit.rs: the         *)
(* RedisLimiterMonitor that decides whether a call of take goes to Redis   *)
(* or to the process-local rescue map, and the BoundedPeriodLimiter that   *)
(* is that map.                                                            *)
(*                                                                         *)
(* Redis is a server that answers while redis_up and fails or times out    *)
(* otherwise; its own decisions do not feed back into the process.  The    *)
(* counters of the snapshot are not kept.  Time is the number of the       *)
(* current window and whether next_probe_at has passed; it never runs      *)
(* backwards.                                                              *)
(***************************************************************************)
EXTENDS Naturals, FiniteSets, FiniteSetTheorems, TLAPS

CONSTANTS Callers, Identities, quota, max_keys,
          MaxWindow     \* bound: the last window

VARIABLES
  backend_state, probe_due,  \* of the monitor; probe_due: now >= next_probe_at
  redis_up, clock,           \* the environment
  windows,                   \* per identity {} or {[used, window]}
  pc, key, current_window,   \* of each caller
  probing,                   \* history: the calls whose compare_exchange took the probe
  orphaned,                  \* history: the last prober was dropped and nobody has reported since
  granted,                   \* history: rescue permits per window and identity
  overtaken                  \* history: has a call locked the map with an older window than it held?

monitor == <<backend_state, probe_due>>
rescue == <<windows, granted, overtaken>>
call == <<pc, key, current_window, probing, orphaned>>
vars == <<monitor, rescue, call, redis_up, clock>>

BackendStates == {"NotObserved", "Available", "Unavailable", "Probing"}
Entries == [used : 0..quota, window : 0..MaxWindow]
Tracked == {k \in Identities : windows[k] # {}}

TypeOK ==
  /\ backend_state \in BackendStates
  /\ probe_due \in BOOLEAN /\ redis_up \in BOOLEAN
  /\ clock \in 0..MaxWindow
  /\ windows \in [Identities -> SUBSET Entries]
  /\ pc \in [Callers -> {"idle", "check", "sent", "failed", "rescue", "lock"}]
  /\ key \in [Callers -> Identities]
  /\ current_window \in [Callers -> 0..MaxWindow]
  /\ probing \subseteq Callers
  /\ granted \in [(0..MaxWindow) \X Identities -> Nat]
  /\ orphaned \in BOOLEAN /\ overtaken \in BOOLEAN
  /\ Cardinality(Tracked) <= max_keys
  /\ \A k \in Identities : Cardinality(windows[k]) <= 1

Init ==
  /\ backend_state = "NotObserved" /\ probe_due = TRUE
  /\ redis_up \in BOOLEAN /\ clock = 0
  /\ windows = [k \in Identities |-> {}]
  /\ pc = [c \in Callers |-> "idle"]
  /\ key \in [Callers -> Identities]
  /\ current_window = [c \in Callers |-> 0]
  /\ probing = {} /\ orphaned = FALSE /\ overtaken = FALSE
  /\ granted = [g \in (0..MaxWindow) \X Identities |-> 0]

Goto(c, step) == pc' = [pc EXCEPT ![c] = step]

\* take: should_attempt_redis loads the state.
Take(c, k) ==
  /\ pc[c] = "idle"
  /\ Goto(c, CASE backend_state \in {"NotObserved", "Available"} -> "sent"
               [] backend_state = "Unavailable" -> "check"
               [] backend_state = "Probing" -> "rescue")
  /\ key' = [key EXCEPT ![c] = k]
  /\ UNCHANGED <<monitor, rescue, current_window, probing, orphaned, redis_up, clock>>

\* should_attempt_redis in state 2: past next_probe_at, one caller wins the
\* compare_exchange and probes.
Probe(c) ==
  /\ pc[c] = "check"
  /\ LET won == probe_due /\ backend_state = "Unavailable"
     IN  /\ backend_state' = IF won THEN "Probing" ELSE backend_state
         /\ probing' = IF won THEN probing \cup {c} ELSE probing
         /\ Goto(c, IF won THEN "sent" ELSE "rescue")
  /\ UNCHANGED <<probe_due, rescue, key, current_window, orphaned, redis_up, clock>>

\* Redis answered: redis_success swaps the state.
redis_success(c) ==
  /\ pc[c] = "sent" /\ redis_up
  /\ backend_state' = "Available"
  /\ probing' = probing \ {c} /\ orphaned' = FALSE
  /\ Goto(c, "idle")
  /\ UNCHANGED <<probe_due, rescue, key, current_window, redis_up, clock>>

\* Redis failed: redis_failure first moves next_probe_at ...
Postpone(c) ==
  /\ pc[c] = "sent" /\ ~redis_up
  /\ probe_due' = FALSE
  /\ Goto(c, "failed")
  /\ UNCHANGED <<backend_state, rescue, key, current_window, probing, orphaned, redis_up, clock>>

\* Fault: only the failure that discovers the outage is stored.
redis_failure_once(c) ==
  /\ pc[c] = "failed"
  /\ backend_state' = IF backend_state = "Probing" THEN backend_state ELSE "Unavailable"
  /\ probing' = probing \ {c} /\ orphaned' = FALSE
  /\ Goto(c, "rescue")
  /\ UNCHANGED <<probe_due, rescue, key, current_window, redis_up, clock>>

\* ... and then stores the state.
redis_failure(c) ==
  /\ pc[c] = "failed"
  /\ backend_state' = "Unavailable"
  /\ probing' = probing \ {c} /\ orphaned' = FALSE
  /\ Goto(c, "rescue")
  /\ UNCHANGED <<probe_due, rescue, key, current_window, redis_up, clock>>

\* The future of take is dropped at its only await.
Drop(c) ==
  /\ pc[c] = "sent"
  /\ probing' = probing \ {c}
  /\ orphaned' = (orphaned \/ (backend_state = "Probing" /\ probing = {c}))
  /\ Goto(c, "idle")
  /\ UNCHANGED <<monitor, rescue, key, current_window, redis_up, clock>>

\* BoundedPeriodLimiter::take reads the clock before it locks the map.
ReadClock(c) ==
  /\ pc[c] = "rescue"
  /\ current_window' = [current_window EXCEPT ![c] = clock]
  /\ Goto(c, "lock")
  /\ UNCHANGED <<monitor, rescue, key, probing, orphaned, redis_up, clock>>

\* Fault: a full map is emptied to make room.
RetainedNone(k, w) == IF windows[k] = {} THEN [j \in Identities |-> {}] ELSE windows

\* A new identity in a full map first drops the entries of other windows.
Retained(k, w) ==
  IF windows[k] = {} /\ Cardinality(Tracked) >= max_keys
  THEN [j \in Identities |-> {e \in windows[j] : e.window = w}]
  ELSE windows

\* An entry of another window starts again at zero.
Used(entries, w) == IF \E e \in entries : e.window = w
                    THEN (CHOOSE e \in entries : e.window = w).used ELSE 0

\* A map that is still full rejects the new identity; otherwise the entry
\* of k is inserted or restarted, and a permit is granted below the quota.
Decide(k, w, kept) ==
  LET full == kept[k] = {} /\ Cardinality({j \in Identities : kept[j] # {}}) >= max_keys
      used == Used(kept[k], w)
      permit == ~full /\ used < quota
  IN  /\ windows' = IF full THEN kept
                    ELSE [kept EXCEPT ![k] = {[used |-> IF permit THEN used + 1 ELSE used,
                                               window |-> w]}]
      /\ granted' = IF permit THEN [granted EXCEPT ![<<w, k>>] = @ + 1] ELSE granted

\* BoundedPeriodLimiter::take under the lock.
RescueTake(c) ==
  /\ pc[c] = "lock"
  /\ LET w == current_window[c]
     IN  /\ Decide(key[c], w, Retained(key[c], w))
         /\ overtaken' = (overtaken \/ \E k \in Tracked : \E e \in windows[k] : e.window > w)
  /\ Goto(c, "idle")
  /\ UNCHANGED <<monitor, key, current_window, probing, orphaned, redis_up, clock>>

\* The environment: a window ends, next_probe_at passes, Redis comes and goes.
NextWindow ==
  /\ clock < MaxWindow /\ clock' = clock + 1
  /\ UNCHANGED <<monitor, rescue, call, redis_up>>

ProbeInterval ==
  /\ ~probe_due /\ probe_due' = TRUE
  /\ UNCHANGED <<backend_state, rescue, call, redis_up, clock>>

RedisChanges ==
  /\ redis_up' = ~redis_up
  /\ UNCHANGED <<monitor, rescue, call, clock>>

Step(c) ==
  \/ \E k \in Identities : Take(c, k)
  \/ Probe(c)
  \/ redis_success(c)
  \/ Postpone(c)
  \/ redis_failure(c)
  \/ ReadClock(c)
  \/ RescueTake(c)

Next ==
  \/ \E c \in Callers : Step(c) \/ Drop(c)
  \/ NextWindow
  \/ ProbeInterval
  \/ RedisChanges

Spec == Init /\ [][Next]_vars

\* Every caller's code runs on, and takes again: without traffic nobody
\* probes.  Time passes.  Redis owes nothing.
Fairness == WF_vars(ProbeInterval) /\ \A c \in Callers : WF_vars(Step(c))

FairSpec == Spec /\ Fairness

-----------------------------------------------------------------------------
\* In no window does the rescue map grant an identity more than its quota,
\* however many other identities compete for the map (BoundedPeriodLimiter
\* "rejects new identities after max_rescue_keys rather than evicting active
\* quotas").  That holds until a call that read the clock before a window
\* ended locks the map after another has entered the next window: take treats
\* any other window, also a newer one, as expired.
QuotaPerWindow == ~overtaken => \A g \in DOMAIN granted : granted[g] <= quota

\* A recovery probe is never in flight without somebody to report on it:
\* in state 3 (Probing) should_attempt_redis sends every caller to the rescue
\* map, so only the prober, or a call that went out before, can leave it.
\* The one exception is a prober whose future was dropped.
ProbeHasOwner == backend_state = "Probing" => probing # {} \/ orphaned

\* What the limiter promises while Redis is away: its quotas, and that somebody looks for it.
RescueKept == QuotaPerWindow /\ ProbeHasOwner

\* A Redis that stays up is found again, unless a prober was dropped: the
\* limiter does not remain for ever in the states in which it bypasses Redis.
RecoversUnlessOrphaned ==
  <>[]redis_up => []<>(backend_state \in {"NotObserved", "Available"} \/ orphaned)

\* The same without the exception.
Recovers == <>[]redis_up => []<>(backend_state \in {"NotObserved", "Available"})

-----------------------------------------------------------------------------
(* Why these hold for any callers, identities and capacity                 *)

\* What RedisPeriodLimiter::new asserts of the capacity; identities are the ones met so far.
LimiterConfig == /\ IsFiniteSet(Identities)
                 /\ quota \in Nat /\ max_keys \in Nat \ {0} /\ MaxWindow \in Nat

TrackedIn(map) == {k \in Identities : map[k] # {}}

Single(map) == \A k \in Identities : map[k] = {} \/ \E e \in Entries : map[k] = {e}

Types ==
  /\ backend_state \in BackendStates
  /\ probe_due \in BOOLEAN /\ redis_up \in BOOLEAN
  /\ clock \in 0..MaxWindow
  /\ windows \in [Identities -> SUBSET Entries] /\ Single(windows)
  /\ pc \in [Callers -> {"idle", "check", "sent", "failed", "rescue", "lock"}]
  /\ key \in [Callers -> Identities]
  /\ current_window \in [Callers -> 0..MaxWindow]
  /\ probing \subseteq Callers
  /\ granted \in [(0..MaxWindow) \X Identities -> Nat]
  /\ orphaned \in BOOLEAN /\ overtaken \in BOOLEAN

\* The map never holds more identities than its capacity.
Bounded == Cardinality(Tracked) <= max_keys

\* An entry counts the permits of its window, and permits that no entry counts any more are of a
\* window that some entry has left behind.
Accounted ==
  /\ \A k \in Identities : \A e \in windows[k] : granted[<<e.window, k>>] = e.used
  /\ \A w \in 0..MaxWindow, k \in Identities : granted[<<w, k>>] > 0 =>
       \/ \E e \in windows[k] : e.window = w
       \/ \E j \in Identities : \E e \in windows[j] : e.window > w
  /\ \A w \in 0..MaxWindow, k \in Identities : granted[<<w, k>>] <= quota

LimiterInv == Types /\ Bounded /\ ProbeHasOwner /\ (~overtaken => Accounted)

LEMMA InitLimiter == ASSUME LimiterConfig PROVE Init => LimiterInv
<1> SUFFICES ASSUME Init PROVE LimiterInv
  OBVIOUS
<1>1. windows = [k \in Identities |-> {}] /\ \A k \in Identities : windows[k] = {}
  BY DEF Init
<1>2. Types
  <2>1. MaxWindow \in Nat /\ 0 \in 0..MaxWindow
    BY DEF LimiterConfig
  <2>2. Single(windows) /\ windows \in [Identities -> SUBSET Entries]
    BY <1>1 DEF Single
  <2>3. granted \in [(0..MaxWindow) \X Identities -> Nat]
    BY DEF Init
  <2>4. QED
    BY <2>1, <2>2, <2>3 DEF Init, Types, BackendStates
<1>3. Bounded
  <2>1. Tracked = {}
    BY <1>1 DEF Tracked
  <2>2. QED
    BY <2>1, FS_EmptySet DEF Bounded, LimiterConfig
<1>4. Accounted
  <2>1. \A w \in 0..MaxWindow, k \in Identities : granted[<<w, k>>] = 0
    BY DEF Init
  <2>2. QED
    BY <1>1, <2>1 DEF Accounted, LimiterConfig
<1>5. QED
  BY <1>2, <1>3, <1>4 DEF LimiterInv, ProbeHasOwner, Init

\* Making room keeps the entries of the call's own window, and never touches those of its identity.
LEMMA RoomMade ==
  ASSUME LimiterConfig, Types, Bounded, NEW k \in Identities, NEW w \in 0..MaxWindow
  PROVE  LET kept == Retained(k, w)
         IN  /\ kept \in [Identities -> SUBSET Entries] /\ Single(kept)
             /\ \A j \in Identities : kept[j] \subseteq windows[j]
             /\ \A j \in Identities : \A e \in windows[j] : e.window = w => e \in kept[j]
             /\ kept[k] = windows[k]
             /\ kept = windows \/ \A j \in Identities : \A e \in kept[j] : e.window = w
             /\ Cardinality(TrackedIn(kept)) <= max_keys
<1> DEFINE kept == Retained(k, w)
           only == [j \in Identities |-> {e \in windows[j] : e.window = w}]
<1>1. kept = windows \/ (windows[k] = {} /\ kept = only)
  BY DEF Retained
<1>2. windows \in [Identities -> SUBSET Entries] /\ Single(windows)
  BY DEF Types
<1>3. only \in [Identities -> SUBSET Entries] /\ \A j \in Identities : only[j] \subseteq windows[j]
  BY <1>2
<1>4. Single(only)
  BY <1>2 DEF Single
<1>5. \A j \in Identities : \A e \in windows[j] : e.window = w => e \in only[j]
  OBVIOUS
<1>6. \A j \in Identities : \A e \in only[j] : e.window = w
  OBVIOUS
<1> HIDE DEF kept, only
<1>7. Cardinality(TrackedIn(kept)) <= max_keys
  <2>1. TrackedIn(kept) \subseteq Tracked
    BY <1>1, <1>3 DEF TrackedIn, Tracked
  <2>2. IsFiniteSet(Tracked)
    <3>1. Tracked \in SUBSET Identities
      BY DEF Tracked
    <3>2. QED
      BY <3>1, FS_Subset DEF LimiterConfig
  <2>3. /\ Cardinality(TrackedIn(kept)) <= Cardinality(Tracked)
        /\ Cardinality(TrackedIn(kept)) \in Nat /\ Cardinality(Tracked) \in Nat
    BY <2>1, <2>2, FS_Subset, FS_CardinalityType
  <2>4. QED
    BY <2>3 DEF Bounded, LimiterConfig
<1>8. kept[k] = windows[k]
  BY <1>1, <1>3
<1>9. QED
  BY <1>1, <1>2, <1>3, <1>4, <1>5, <1>6, <1>7, <1>8 DEF kept

\* The count an entry starts a call with.
LEMMA UsedCounts ==
  ASSUME Types, NEW k \in Identities, NEW w \in 0..MaxWindow, quota \in Nat
  PROVE  /\ Used(windows[k], w) \in 0..quota
         /\ \A e \in windows[k] : e.window = w => Used(windows[k], w) = e.used
         /\ (\A e \in windows[k] : e.window # w) => Used(windows[k], w) = 0
<1>1. CASE \A e \in windows[k] : e.window # w
  BY <1>1 DEF Used
<1>2. CASE \E e \in windows[k] : e.window = w
  <2>1. PICK e \in Entries : windows[k] = {e}
    BY <1>2 DEF Types, Single
  <2>2. e.window = w /\ e.used \in 0..quota
    BY <1>2, <2>1 DEF Entries
  <2>3. (CHOOSE x \in windows[k] : x.window = w) = e
    BY <2>1, <2>2
  <2>4. Used(windows[k], w) = e.used
    BY <1>2, <2>3 DEF Used
  <2>5. QED
    BY <2>1, <2>2, <2>4
<1>3. QED
  BY <1>1, <1>2

\* A call under the lock of the map: the capacity, the quota and the account hold on.
LEMMA RescueTakeKeeps ==
  ASSUME LimiterConfig, LimiterInv, NEW c \in Callers, RescueTake(c)
  PROVE  LimiterInv'
<1> DEFINE k == key[c]
           w == current_window[c]
           kept == Retained(k, w)
           full == kept[k] = {} /\ Cardinality(TrackedIn(kept)) >= max_keys
           used == Used(windows[k], w)
           permit == ~full /\ used < quota
           entry == [used |-> IF permit THEN used + 1 ELSE used, window |-> w]
<1>1. Types /\ Bounded /\ ProbeHasOwner /\ (~overtaken => Accounted)
  BY DEF LimiterInv
<1>2. k \in Identities /\ w \in 0..MaxWindow
  BY <1>1 DEF Types
<1>3. UNCHANGED <<backend_state, probe_due, key, current_window, probing, orphaned, redis_up, clock>>
  BY DEF RescueTake, monitor
<1>4. overtaken' = (overtaken \/ \E j \in Tracked : \E e \in windows[j] : e.window > w)
  BY DEF RescueTake
<1>5. pc' = [pc EXCEPT ![c] = "idle"]
  BY DEF RescueTake, Goto
<1>6. /\ kept \in [Identities -> SUBSET Entries] /\ Single(kept)
      /\ \A j \in Identities : kept[j] \subseteq windows[j]
      /\ \A j \in Identities : \A e \in windows[j] : e.window = w => e \in kept[j]
      /\ kept[k] = windows[k]
      /\ kept = windows \/ \A j \in Identities : \A e \in kept[j] : e.window = w
      /\ Cardinality(TrackedIn(kept)) <= max_keys
  BY <1>1, <1>2, RoomMade
<1>7. /\ windows' = IF full THEN kept ELSE [kept EXCEPT ![k] = {entry}]
      /\ granted' = IF permit THEN [granted EXCEPT ![<<w, k>>] = @ + 1] ELSE granted
  BY <1>6 DEF RescueTake, Decide, TrackedIn
<1>8. /\ used \in 0..quota
      /\ \A e \in windows[k] : e.window = w => used = e.used
      /\ (\A e \in windows[k] : e.window # w) => used = 0
  BY <1>1, <1>2, UsedCounts DEF LimiterConfig
<1> HIDE DEF kept, used, k, w
<1>9. entry \in Entries /\ entry.window = w /\ entry.used = IF permit THEN used + 1 ELSE used
  <2>1. (IF permit THEN used + 1 ELSE used) \in 0..quota
    BY <1>8 DEF LimiterConfig
  <2>2. QED
    BY <1>2, <2>1 DEF Entries
<1> HIDE DEF entry, full
<1>10. /\ full => windows' = kept
       /\ ~full => /\ windows'[k] = {entry}
                   /\ \A j \in Identities \ {k} : windows'[j] = kept[j]
  BY <1>2, <1>6, <1>7
<1>11. Types'
  <2>1. windows' \in [Identities -> SUBSET Entries]
    <3>1. {entry} \in SUBSET Entries
      BY <1>9
    <3>2. QED
      BY <1>2, <1>6, <1>7, <3>1
  <2>2. Single(windows')
    BY <1>6, <1>9, <1>10 DEF Single
  <2>3. granted' \in [(0..MaxWindow) \X Identities -> Nat]
    <3>1. <<w, k>> \in (0..MaxWindow) \X Identities /\ granted \in [(0..MaxWindow) \X Identities -> Nat]
      BY <1>1, <1>2 DEF Types
    <3>2. QED
      BY <1>7, <3>1
  <2>4. pc' \in [Callers -> {"idle", "check", "sent", "failed", "rescue", "lock"}]
    BY <1>1, <1>5 DEF Types
  <2>5. overtaken' \in BOOLEAN
    BY <1>1, <1>4 DEF Types
  <2>6. QED
    BY <1>1, <1>3, <2>1, <2>2, <2>3, <2>4, <2>5 DEF Types
<1>12. Bounded'
  <2>1. TrackedIn(kept) \in SUBSET Identities /\ IsFiniteSet(TrackedIn(kept))
    <3>1. TrackedIn(kept) \in SUBSET Identities
      BY DEF TrackedIn
    <3>2. QED
      BY <3>1, FS_Subset DEF LimiterConfig
  <2>2. Cardinality(TrackedIn(kept)) \in Nat
    BY <2>1, FS_CardinalityType
  <2>3. CASE full \/ kept[k] # {}
    <3>1. Tracked' = TrackedIn(kept)
      BY <1>2, <1>10, <2>3 DEF Tracked, TrackedIn
    <3>2. QED
      BY <1>6, <3>1 DEF Bounded
  <2>4. CASE ~full /\ kept[k] = {}
    <3>1. Tracked' = TrackedIn(kept) \cup {k} /\ k \notin TrackedIn(kept)
      BY <1>2, <1>10, <2>4 DEF Tracked, TrackedIn
    <3>2. ~(Cardinality(TrackedIn(kept)) >= max_keys)
      BY <2>4 DEF full
    <3>3. Cardinality(TrackedIn(kept) \cup {k}) = Cardinality(TrackedIn(kept)) + 1
      BY <2>1, <3>1, FS_AddElement
    <3>4. Cardinality(TrackedIn(kept)) + 1 <= max_keys
      BY <2>2, <3>2 DEF LimiterConfig
    <3>5. Cardinality(Tracked') = Cardinality(TrackedIn(kept)) + 1
      BY <3>1, <3>3, Zenon
    <3>6. QED
      BY <3>4, <3>5 DEF Bounded
  <2>5. QED
    BY <2>3, <2>4
<1>13. ProbeHasOwner'
  BY <1>1, <1>3 DEF ProbeHasOwner
<1>14. ASSUME ~overtaken' PROVE Accounted'
  <2>1. Accounted
    BY <1>1, <1>4, <1>14
  <2>2. ASSUME NEW j \in Identities, NEW e \in windows[j], e.window > w PROVE FALSE
    BY <1>4, <1>14, <2>2 DEF Tracked
  <2>3. \A j \in Identities : \A e \in windows[j] : e \in Entries /\ e.window \in 0..MaxWindow /\ e.window <= w
    <3>1. \A j \in Identities : \A e \in windows[j] : e \in Entries /\ e.window \in 0..MaxWindow
      BY <1>1 DEF Types, Entries
    <3>2. QED
      BY <1>2, <2>2, <3>1 DEF LimiterConfig
  <2>4. \A v \in 0..MaxWindow, j \in Identities : granted[<<v, j>>] \in Nat
    BY <1>1 DEF Types
  \* Nothing was granted in a later window, and in this one only what an entry counts.
  <2>5. ASSUME NEW v \in 0..MaxWindow, NEW j \in Identities, granted[<<v, j>>] > 0
        PROVE  v < w \/ (v = w /\ \E e \in windows[j] : e.window = w)
    <3>1. \/ \E e \in windows[j] : e.window = v
          \/ \E i \in Identities : \E e \in windows[i] : e.window > v
      BY <2>1, <2>5 DEF Accounted
    <3>2. CASE \E e \in windows[j] : e.window = v
      BY <1>2, <2>3, <3>2
    <3>3. CASE \E i \in Identities : \E e \in windows[i] : e.window > v
      BY <1>2, <2>3, <3>3
    <3>4. QED
      BY <3>1, <3>2, <3>3
  <2>6. granted[<<w, k>>] = used
    <3>1. CASE \E e \in windows[k] : e.window = w
      BY <1>2, <1>8, <2>1, <3>1 DEF Accounted
    <3>2. CASE \A e \in windows[k] : e.window # w
      <4>1. ~(granted[<<w, k>>] > 0)
        BY <1>2, <2>5, <3>2
      <4>2. QED
        BY <1>2, <1>8, <2>4, <3>2, <4>1
    <3>3. QED
      BY <3>1, <3>2
  <2>7. /\ granted'[<<w, k>>] = IF permit THEN used + 1 ELSE used
        /\ \A v \in 0..MaxWindow, j \in Identities : <<v, j>> # <<w, k>> => granted'[<<v, j>>] = granted[<<v, j>>]
    <3>1. granted \in [(0..MaxWindow) \X Identities -> Nat] /\ <<w, k>> \in (0..MaxWindow) \X Identities
      BY <1>1, <1>2 DEF Types
    <3>2. QED
      BY <1>7, <2>6, <3>1
  <2>8. ASSUME NEW j \in Identities, NEW e \in windows'[j] PROVE granted'[<<e.window, j>>] = e.used
    <3>1. CASE ~full /\ j = k
      <4>1. e = entry
        BY <1>10, <2>8, <3>1
      <4>2. QED
        BY <1>9, <2>7, <3>1, <4>1
    <3>2. CASE full \/ j # k
      <4>1. e \in windows[j]
        BY <1>6, <1>10, <2>8, <3>2
      <4>2. granted[<<e.window, j>>] = e.used /\ e.window \in 0..MaxWindow
        BY <2>1, <2>3, <4>1 DEF Accounted
      <4>3. CASE <<e.window, j>> # <<w, k>>
        BY <2>7, <4>2, <4>3
      <4>4. CASE e.window = w /\ j = k
        <5>1. full /\ ~permit
          BY <3>2, <4>4
        <5>2. QED
          BY <1>8, <2>7, <4>1, <4>4, <5>1
      <4>5. QED
        BY <4>3, <4>4
    <3>3. QED
      BY <3>1, <3>2
  <2>9. ASSUME NEW v \in 0..MaxWindow, NEW j \in Identities, granted'[<<v, j>>] > 0
        PROVE  \/ \E e \in windows'[j] : e.window = v
               \/ \E i \in Identities : \E e \in windows'[i] : e.window > v
    <3>1. CASE v = w /\ j = k /\ ~full
      BY <1>9, <1>10, <3>1
    <3>2. CASE ~(v = w /\ j = k) \/ full
      <4>1. granted[<<v, j>>] > 0
        <5>1. CASE full
          BY <1>7, <2>9, <5>1
        <5>2. CASE ~full
          BY <2>7, <2>9, <3>2, <5>2
        <5>3. QED
          BY <5>1, <5>2
      <4>2. CASE v = w
        <5>1. PICK e \in windows[j] : e.window = w
          BY <2>5, <4>1, <4>2, <1>2
        <5>2. e \in kept[j]
          BY <1>6, <5>1
        <5>3. e \in windows'[j]
          BY <1>10, <3>2, <4>2, <5>2
        <5>4. QED
          BY <4>2, <5>1, <5>3
      <4>3. CASE v # w
        <5>1. v < w
          BY <2>5, <4>1, <4>3
        <5>2. CASE ~full
          BY <1>2, <1>9, <1>10, <5>1, <5>2
        <5>3. CASE full
          <6>1. CASE kept = windows
            BY <1>10, <2>1, <4>1, <5>3, <6>1 DEF Accounted
          <6>2. CASE \A i \in Identities : \A e \in kept[i] : e.window = w
            <7>1. TrackedIn(kept) # {}
              <8>1. Cardinality(TrackedIn(kept)) >= max_keys
                BY <5>3 DEF full
              <8>2. max_keys \in Nat \ {0}
                BY DEF LimiterConfig
              <8>3. Cardinality({}) = 0
                BY FS_EmptySet
              <8>4. Cardinality(TrackedIn(kept)) # 0
                BY <8>1, <8>2
              <8>5. QED
                BY <8>3, <8>4, Zenon
            <7>2. QED
              BY <1>10, <5>1, <5>3, <6>2, <7>1 DEF TrackedIn
          <6>3. QED
            BY <1>6, <6>1, <6>2
        <5>4. QED
          BY <5>2, <5>3
      <4>4. QED
        BY <4>2, <4>3
    <3>3. QED
      BY <3>1, <3>2
  <2>10. \A v \in 0..MaxWindow, j \in Identities : granted'[<<v, j>>] <= quota
    <3>1. granted'[<<w, k>>] <= quota
      BY <1>8, <2>7 DEF LimiterConfig
    <3>2. QED
      BY <2>1, <2>7, <3>1 DEF Accounted
  <2>11. QED
    BY <2>8, <2>9, <2>10 DEF Accounted
<1>15. QED
  BY <1>11, <1>12, <1>13, <1>14 DEF LimiterInv

\* Calls outside the map's lock, and the environment, change neither the map nor its account.
LEMMA OutsideKeeps ==
  ASSUME LimiterConfig, LimiterInv, UNCHANGED rescue, Types', ProbeHasOwner'
  PROVE  LimiterInv'
<1>1. UNCHANGED <<windows, granted, overtaken>>
  BY DEF rescue
<1>2. Bounded'
  <2>1. Tracked' = Tracked
    BY <1>1 DEF Tracked
  <2>2. QED
    BY <2>1 DEF LimiterInv, Bounded
<1>3. Accounted' <=> Accounted
  BY <1>1 DEF Accounted
<1>4. QED
  BY <1>1, <1>2, <1>3 DEF LimiterInv

LEMMA NextLimiter ==
  ASSUME LimiterConfig PROVE LimiterInv /\ [Next]_vars => LimiterInv'
<1> SUFFICES ASSUME LimiterInv, [Next]_vars PROVE LimiterInv'
  OBVIOUS
<1>1. Types /\ ProbeHasOwner
  BY DEF LimiterInv
<1>2. ASSUME NEW c \in Callers, NEW k \in Identities, Take(c, k) PROVE LimiterInv'
  <2>1. UNCHANGED rescue /\ ProbeHasOwner'
    BY <1>1, <1>2 DEF Take, monitor, ProbeHasOwner
  <2>2. pc' \in [Callers -> {"idle", "check", "sent", "failed", "rescue", "lock"}]
    BY <1>1, <1>2 DEF Take, Goto, Types, BackendStates
  <2>3. Types'
    BY <1>1, <1>2, <2>2 DEF Take, Types, monitor, rescue
  <2>4. QED
    BY <2>1, <2>3, OutsideKeeps
<1>3. ASSUME NEW c \in Callers, Probe(c) PROVE LimiterInv'
  <2>1. UNCHANGED rescue /\ ProbeHasOwner'
    BY <1>1, <1>3 DEF Probe, ProbeHasOwner
  <2>2. Types'
    BY <1>1, <1>3 DEF Probe, Goto, Types, rescue, BackendStates
  <2>3. QED
    BY <2>1, <2>2, OutsideKeeps
<1>4. ASSUME NEW c \in Callers, redis_success(c) \/ Postpone(c) \/ redis_failure(c) PROVE LimiterInv'
  <2>1. UNCHANGED rescue /\ ProbeHasOwner'
    BY <1>1, <1>4 DEF redis_success, Postpone, redis_failure, ProbeHasOwner
  <2>2. Types'
    BY <1>1, <1>4 DEF redis_success, Postpone, redis_failure, Goto, Types, rescue, BackendStates
  <2>3. QED
    BY <2>1, <2>2, OutsideKeeps
<1>5. ASSUME NEW c \in Callers, Drop(c) PROVE LimiterInv'
  <2>1. UNCHANGED rescue /\ UNCHANGED backend_state
    BY <1>5 DEF Drop, monitor
  <2>2. ProbeHasOwner'
    <3> SUFFICES ASSUME backend_state = "Probing", ~orphaned', probing' = {} PROVE FALSE
      BY <2>1 DEF ProbeHasOwner
    <3>1. ~orphaned /\ probing # {c} /\ probing \ {c} = {}
      BY <1>5 DEF Drop
    <3>2. probing = {}
      BY <3>1
    <3>3. QED
      BY <1>1, <3>1, <3>2 DEF ProbeHasOwner
  <2>3. Types'
    BY <1>1, <1>5 DEF Drop, Goto, Types, monitor, rescue
  <2>4. QED
    BY <2>1, <2>2, <2>3, OutsideKeeps
<1>6. ASSUME NEW c \in Callers, ReadClock(c) PROVE LimiterInv'
  <2>1. UNCHANGED rescue /\ ProbeHasOwner'
    BY <1>1, <1>6 DEF ReadClock, monitor, ProbeHasOwner
  <2>2. Types'
    BY <1>1, <1>6 DEF ReadClock, Goto, Types, monitor, rescue
  <2>3. QED
    BY <2>1, <2>2, OutsideKeeps
<1>7. CASE NextWindow
  <2>1. UNCHANGED rescue /\ ProbeHasOwner'
    BY <1>1, <1>7 DEF NextWindow, monitor, call, ProbeHasOwner
  <2>2. clock' \in 0..MaxWindow
    BY <1>1, <1>7 DEF NextWindow, Types, LimiterConfig
  <2>3. Types'
    BY <1>1, <1>7, <2>2 DEF NextWindow, Types, monitor, rescue, call
  <2>4. QED
    BY <2>1, <2>3, OutsideKeeps
<1>8. CASE ProbeInterval \/ RedisChanges
  <2>1. UNCHANGED rescue /\ ProbeHasOwner'
    BY <1>1, <1>8 DEF ProbeInterval, RedisChanges, monitor, call, ProbeHasOwner
  <2>2. Types'
    BY <1>1, <1>8 DEF ProbeInterval, RedisChanges, Types, monitor, rescue, call
  <2>3. QED
    BY <2>1, <2>2, OutsideKeeps
<1>9. CASE UNCHANGED vars
  <2>1. UNCHANGED rescue /\ ProbeHasOwner'
    BY <1>1, <1>9 DEF vars, monitor, call, ProbeHasOwner
  <2>2. Types'
    BY <1>1, <1>9 DEF vars, Types, monitor, rescue, call
  <2>3. QED
    BY <2>1, <2>2, OutsideKeeps
<1>10. QED
  BY <1>2, <1>3, <1>4, <1>5, <1>6, <1>7, <1>8, <1>9, RescueTakeKeeps DEF Next, Step

\* Single entries, and the map within its capacity.
LEMMA LimiterTypes == LimiterInv => TypeOK
<1> SUFFICES ASSUME LimiterInv PROVE TypeOK
  OBVIOUS
<1>1. ASSUME NEW k \in Identities PROVE Cardinality(windows[k]) <= 1
  <2>1. windows[k] = {} \/ \E e \in Entries : windows[k] = {e}
    BY DEF LimiterInv, Types, Single
  <2>2. CASE windows[k] = {}
    BY <2>2, FS_EmptySet
  <2>3. ASSUME NEW e, windows[k] = {e} PROVE Cardinality(windows[k]) <= 1
    <3>1. Cardinality({e}) = 1
      BY FS_Singleton
    <3>2. Cardinality(windows[k]) = 1
      BY <2>3, <3>1, Zenon
    <3>3. QED
      BY <3>2
  <2>4. QED
    BY <2>1, <2>2, <2>3
<1>2. probe_due \in BOOLEAN /\ redis_up \in BOOLEAN /\ orphaned \in BOOLEAN /\ overtaken \in BOOLEAN
  BY Zenon DEF LimiterInv, Types
<1>3. Cardinality(Tracked) <= max_keys
  BY Zenon DEF LimiterInv, Bounded
<1>4. QED
  BY <1>1, <1>2, <1>3 DEF LimiterInv, Types, TypeOK

\* No permit is uncounted, unless an older window was locked later.
LEMMA LimiterKeeps == LimiterInv => RescueKept
<1> SUFFICES ASSUME LimiterInv, ~overtaken PROVE \A g \in DOMAIN granted : granted[g] <= quota
  BY DEF RescueKept, QuotaPerWindow, LimiterInv
<1>1. DOMAIN granted = (0..MaxWindow) \X Identities
  BY DEF LimiterInv, Types
<1>2. \A w \in 0..MaxWindow, k \in Identities : granted[<<w, k>>] <= quota
  BY DEF LimiterInv, Accounted
<1>3. QED
  BY <1>1, <1>2

\* The rescue map of a RedisPeriodLimiter never tracks more identities than max_rescue_keys, with
\* one entry each, and no entry counts more than the quota, for any callers and identities.
THEOREM RescueIsBounded ==
  ASSUME LimiterConfig
  PROVE  Spec => []TypeOK
BY InitLimiter, NextLimiter, LimiterTypes, PTL DEF Spec

\* Whatever callers, identities and capacity there are, the rescue map grants no identity more than
\* its quota in a window until a call locks the map with an older window than it holds, and a
\* recovery probe in flight has somebody to report on it unless its prober was dropped.
THEOREM RescueIsKept ==
  ASSUME LimiterConfig
  PROVE  Spec => []RescueKept
BY InitLimiter, NextLimiter, LimiterKeeps, PTL DEF Spec
=============================================================================
