----------------------------- MODULE RedisLock ------------------------------
(***************************************************************************)
(* RedisLock (core/src/stores_redis.rs): handles on one lock key, each     *)
(* with its own token, and the commands they send.  A handle's commands go *)
(* out in order on one connection; the operation timeout abandons a call,  *)
(* and the server may still run the command it sent.  The key's TTL can    *)
(* pass at any moment.                                                     *)
(***************************************************************************)
EXTENDS Naturals, Sequences

CONSTANTS
  Locks,      \* the handles (an &mut handle runs one call at a time)
  Free,       \* the key is absent
  MaxCalls    \* bound: calls per handle

VARIABLES
  key,        \* the handle whose token is stored, or Free
  held,       \* RedisLock::held
  call,       \* per handle: "idle" or the call it is in
  wire,       \* per handle: commands not yet run; "lost" ones have no caller
  answer,     \* per handle: the reply on its way, [ok, v]
  calls,
  lapsed,     \* history: the TTL passed on the handle's own key
  doubtful    \* history: a call of the handle ended without its reply

vars == <<key, held, call, wire, answer, calls, lapsed, doubtful>>

Calls == {"acquire", "extend", "release"}

TypeOK ==
  /\ key \in Locks \cup {Free}
  /\ held \in [Locks -> BOOLEAN]
  /\ call \in [Locks -> Calls \cup {"idle"}]
  /\ wire \in [Locks -> Seq([op : Calls, lost : BOOLEAN])]
  /\ answer \in [Locks -> {{}, {TRUE}, {FALSE}}]
  /\ lapsed \subseteq Locks /\ doubtful \subseteq Locks

Init ==
  /\ key = Free
  /\ held = [l \in Locks |-> FALSE]
  /\ call = [l \in Locks |-> "idle"]
  /\ wire = [l \in Locks |-> <<>>]
  /\ answer = [l \in Locks |-> {}]
  /\ calls = [l \in Locks |-> 0]
  /\ lapsed = {} /\ doubtful = {}

Send(l, op) ==
  /\ call[l] = "idle" /\ calls[l] < MaxCalls
  /\ calls' = [calls EXCEPT ![l] = @ + 1]
  /\ call' = [call EXCEPT ![l] = op]
  /\ wire' = [wire EXCEPT ![l] = Append(@, [op |-> op, lost |-> FALSE])]
  /\ UNCHANGED <<key, held, answer, lapsed, doubtful>>

acquire(l) == Send(l, "acquire")

\* extend and release send nothing for a handle that does not hold.
extend(l) == held[l] /\ Send(l, "extend")

release(l) == held[l] /\ Send(l, "release")

-----------------------------------------------------------------------------
(* the server: SET NX PX, and the scripts that compare the token first     *)

\* Fault: RELEASE_LOCK deletes whatever is stored.
RunScriptUnchecked(l, op) ==
  CASE op = "acquire" -> key' = IF key = Free THEN l ELSE key
    [] op = "extend"  -> UNCHANGED key
    [] op = "release" -> key' = Free

RunScript(l, op) ==
  CASE op = "acquire" -> key' = IF key = Free THEN l ELSE key
    [] op = "extend"  -> UNCHANGED key
    [] op = "release" -> key' = IF key = l THEN Free ELSE key

Execute(l) ==
  /\ wire[l] # <<>>
  /\ LET command == Head(wire[l]) IN
     /\ RunScript(l, command.op)
     /\ answer' = IF command.lost THEN answer
                  ELSE [answer EXCEPT ![l] = {IF command.op = "acquire" THEN key = Free ELSE key = l}]
     /\ lapsed' = IF command.op = "acquire" /\ key = Free THEN lapsed \ {l} ELSE lapsed
  /\ wire' = [wire EXCEPT ![l] = Tail(@)]
  /\ UNCHANGED <<held, call, calls, doubtful>>

\* every key a lock writes has a TTL
Expire ==
  /\ key # Free
  /\ lapsed' = lapsed \cup {key}
  /\ key' = Free
  /\ UNCHANGED <<held, call, wire, answer, calls, doubtful>>

-----------------------------------------------------------------------------
(* the call returns                                                        *)

\* acquire assigns the flag, extend leaves it, release clears it
HeldAfter(l, granted) ==
  CASE call[l] = "acquire" -> granted
    [] call[l] = "extend"  -> held[l]
    [] call[l] = "release" -> FALSE

Return(l) ==
  \E granted \in answer[l] :
    /\ held' = [held EXCEPT ![l] = HeldAfter(l, granted)]
    /\ call' = [call EXCEPT ![l] = "idle"]
    /\ answer' = [answer EXCEPT ![l] = {}]
    /\ doubtful' = IF call[l] = "acquire" THEN doubtful \ {l} ELSE doubtful
    /\ UNCHANGED <<key, wire, calls, lapsed>>

\* run: the operation timeout or an I/O error; `?` leaves `held` as it was.
TimeOut(l) ==
  /\ call[l] # "idle"
  /\ call' = [call EXCEPT ![l] = "idle"]
  /\ answer' = [answer EXCEPT ![l] = {}]
  /\ wire' \in {[wire EXCEPT ![l] = [i \in DOMAIN @ |-> [@[i] EXCEPT !.lost = TRUE]]],
               [wire EXCEPT ![l] = <<>>]}
  /\ doubtful' = doubtful \cup {l}
  /\ UNCHANGED <<key, held, calls, lapsed>>

Next ==
  \/ \E l \in Locks :
       acquire(l) \/ extend(l) \/ release(l) \/ Execute(l) \/ Return(l) \/ TimeOut(l)
  \/ Expire

Spec == Init /\ [][Next]_vars

-----------------------------------------------------------------------------

\* A handle that believes it holds the lock owns the key, so no other handle
\* does, unless its TTL passed, one of its calls ended without a reply, or its
\* release is being answered.  No other handle's late or repeated command ends
\* its hold.
HeldMeansOwned ==
  \A l \in Locks \ (lapsed \cup doubtful) : held[l] /\ call[l] # "release" => key = l
=============================================================================
