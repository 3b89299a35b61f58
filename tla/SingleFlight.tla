---------------------------- MODULE SingleFlight ----------------------------
(***************************************************************************)
(* SingleFlight::execute of core/src/singleflight.rs: concurrent calls for *)
(* one key share the result of the first.                                  *)
(*                                                                         *)
(* Each caller makes one call.  The leader takes its flight out of the map *)
(* under the lock and sends the result after releasing it, so a new flight *)
(* for the same key may begin before the old one's waiters are told.  A    *)
(* caller's future may be dropped at its await: the operation's for a      *)
(* leader, the receiver's for a waiter.                                    *)
(***************************************************************************)
EXTENDS Naturals, FiniteSets

CONSTANTS Callers, Keys,
          Results,          \* what an operation may return, Err(e) included
          LeaderCancelled   \* SingleFlightError::LeaderCancelled

VARIABLES
  flights,   \* the keys that the map holds
  waiters,   \* the waiters of each flight; a Vec, of which the order is never used
  pc, key,   \* progress of each caller and the key it asked for
  taken,     \* the waiters that a leader has taken out of the map
  result     \* {} until the call returns, then {its result}

vars == <<flights, waiters, pc, key, taken, result>>

Outcomes == Results \cup {LeaderCancelled}

Leaders(k) == {c \in Callers : pc[c] = "leading" /\ key[c] = k}

TypeOK ==
  /\ flights \subseteq Keys
  /\ waiters \in [Keys -> SUBSET Callers]
  /\ pc \in [Callers -> {"idle", "leading", "waiting", "landing", "done", "dropped"}]
  /\ key \in [Callers -> Keys]
  /\ taken \in [Callers -> SUBSET Callers]
  /\ \A c \in Callers : result[c] \subseteq Outcomes /\ Cardinality(result[c]) <= 1

Init ==
  /\ flights = {}
  /\ waiters = [k \in Keys |-> {}]
  /\ pc = [c \in Callers |-> "idle"]
  /\ key \in [Callers -> Keys]
  /\ taken = [c \in Callers |-> {}]
  /\ result = [c \in Callers |-> {}]

\* Fault: the map is consulted and filled under separate locks.
LeadUnchecked(c) ==
  /\ pc[c] = "idle"
  /\ flights' = flights \cup {key[c]}
  /\ waiters' = [waiters EXCEPT ![key[c]] = {}]
  /\ pc' = [pc EXCEPT ![c] = "leading"]
  /\ UNCHANGED <<key, taken, result>>

Lead(c) ==
  /\ pc[c] = "idle"
  /\ key[c] \notin flights
  /\ flights' = flights \cup {key[c]}
  /\ waiters' = [waiters EXCEPT ![key[c]] = {}]
  /\ pc' = [pc EXCEPT ![c] = "leading"]
  /\ UNCHANGED <<key, taken, result>>

Join(c) ==
  /\ pc[c] = "idle"
  /\ key[c] \in flights
  /\ waiters' = [waiters EXCEPT ![key[c]] = @ \cup {c}]
  /\ pc' = [pc EXCEPT ![c] = "waiting"]
  /\ UNCHANGED <<flights, key, taken, result>>

\* The leader's flight leaves the map with its waiters.
Remove(c) ==
  /\ flights' = flights \ {key[c]}
  /\ taken' = [taken EXCEPT ![c] = waiters[key[c]]]
  /\ waiters' = [waiters EXCEPT ![key[c]] = {}]

\* The operation has returned r.
Land(c, r) ==
  /\ pc[c] = "leading"
  /\ Remove(c)
  /\ result' = [result EXCEPT ![c] = {r}]
  /\ pc' = [pc EXCEPT ![c] = "landing"]
  /\ UNCHANGED key

\* A send to a waiter that has been dropped is ignored.
Deliver(c, r) ==
  /\ result' = [w \in Callers |-> IF w \in taken[c] /\ pc[w] = "waiting" THEN {r} ELSE result[w]]
  /\ pc' = [w \in Callers |-> IF w = c \/ (w \in taken[c] /\ pc[w] = "waiting")
                              THEN "done" ELSE pc[w]]
  /\ UNCHANGED <<flights, waiters, key, taken>>

Notify(c) ==
  /\ pc[c] = "landing"
  /\ \E r \in result[c] : Deliver(c, r)

\* Fault: the leader's guard is not armed.
CancelLeaderUnguarded(c) ==
  /\ pc[c] = "leading"
  /\ pc' = [pc EXCEPT ![c] = "dropped"]
  /\ UNCHANGED <<flights, waiters, key, taken, result>>

\* The leader's future is dropped, or its operation panics: FlightGuard::drop removes the flight
\* and tells its waiters, all under the lock.
CancelLeader(c) ==
  /\ pc[c] = "leading"
  /\ Remove(c)
  /\ LET told == {w \in waiters[key[c]] : pc[w] = "waiting"}
     IN /\ result' = [w \in Callers |-> IF w \in told THEN {LeaderCancelled} ELSE result[w]]
        /\ pc' = [w \in Callers |-> IF w = c THEN "dropped"
                                    ELSE IF w \in told THEN "done" ELSE pc[w]]
  /\ UNCHANGED key

\* A waiter's future is dropped; its sender stays with the flight.
CancelWaiter(c) ==
  /\ pc[c] = "waiting"
  /\ pc' = [pc EXCEPT ![c] = "dropped"]
  /\ UNCHANGED <<flights, waiters, key, taken, result>>

Next ==
  \E c \in Callers :
    \/ Lead(c)
    \/ Join(c)
    \/ \E r \in Results : Land(c, r)
    \/ Notify(c)
    \/ CancelLeader(c)
    \/ CancelWaiter(c)

Spec == Init /\ [][Next]_vars

\* An operation returns or is dropped, and the code after it runs.
Fairness ==
  \A c \in Callers : /\ WF_vars((\E r \in Results : Land(c, r)) \/ CancelLeader(c))
                     /\ WF_vars(Notify(c))

FairSpec == Spec /\ Fairness

-----------------------------------------------------------------------------
(* Properties                                                              *)

\* Only one operation per key runs at a time: a flight in the map has exactly one leader, and
\* a leader's flight is in the map until its operation has returned.
OneLeaderPerFlight ==
  \A k \in Keys : Cardinality(Leaders(k)) = (IF k \in flights THEN 1 ELSE 0)

\* No caller waits on a flight that nobody will land: every waiting caller is with a flight of
\* its key that has a leader or has been taken over by a leader that is about to send, and by one of them only.
\* This is what the two expect calls of execute rely on.
WaitersHaveALeader ==
  \A w \in Callers : pc[w] = "waiting" =>
    LET holders == {c \in Callers : pc[c] = "landing" /\ w \in taken[c]}
    IN IF w \in waiters[key[w]] THEN Leaders(key[w]) # {} /\ holders = {}
                                ELSE Cardinality(holders) = 1

\* execute runs one operation per key at a time, and whoever waits for a flight waits for a
\* caller that has yet to tell it.
FlightsLed == OneLeaderPerFlight /\ WaitersHaveALeader

\* Every waiter is answered, or its own future is dropped.
WaitersAnswered == \A w \in Callers : (pc[w] = "waiting") ~> (pc[w] \in {"done", "dropped"})
=============================================================================
