------------------------ MODULE KubernetesDiscovery ------------------------
(***************************************************************************)
(* KubernetesDiscovery::subscribe and its watch task                       *)
(* (core/src/kubernetes.rs).                                               *)
(*                                                                         *)
(* The cluster is external: history[r] gives every EndpointSlice of the    *)
(* service at revision r, Absent when it does not exist.  The watcher      *)
(* library lists the slices at one revision (Init, InitApply, InitDone)    *)
(* and then delivers one event per later revision; the code starts a new   *)
(* watcher after every error.                                              *)
(***************************************************************************)
EXTENDS Naturals, Sequences

CONSTANTS
  Slices,      \* slice names
  Contents,    \* what a slice can hold: [port, endpoints]
  Absent,
  MaxChanges,  \* bound
  MaxBreaks    \* bound

VARIABLES
  history,
  conn,        \* the watch task
  listed,      \* the revision the watcher has reached
  todo,        \* slices of the list not delivered yet
  pending, slices,
  shown,       \* the receiver's value
  published,   \* an update was sent
  seen,        \* history: the revision the slices stand for
  caller,      \* subscribe
  breaks

vars == <<history, conn, listed, todo, pending, slices, shown, published, seen, caller, breaks>>

Empty == [n \in Slices |-> Absent]
Current == history[Len(history)]

\* endpoints_from_slice: no matching TCP port, no endpoints; an unset ready
\* counts as true, an unset terminating as false.
serves(e) == e.ready # "false" /\ e.terminating # "true"

endpoints_from_slice(slice) ==
  IF slice.port THEN {e.address : e \in {e \in slice.endpoints : serves(e)}} ELSE {}

combined_endpoints(view) ==
  UNION {endpoints_from_slice(view[n]) : n \in {n \in Slices : view[n] # Absent}}

TypeOK ==
  /\ history \in Seq([Slices -> Contents \union {Absent}])
  /\ conn \in {"starting", "listing", "watching", "sleeping", "aborted"}
  /\ listed \in 0..Len(history) /\ seen \in 0..Len(history)
  /\ todo \subseteq Slices
  /\ {pending, slices} \subseteq [Slices -> Contents \union {Absent}]
  /\ published \in BOOLEAN
  /\ caller \in {"waiting", "subscribed", "timeout"}
  /\ breaks \in 0..MaxBreaks

Init ==
  /\ history \in {<<view>> : view \in [Slices -> Contents \union {Absent}]}
  /\ conn = "starting" /\ listed = 0 /\ todo = {}
  /\ pending = Empty /\ slices = Empty
  /\ shown = {} /\ published = FALSE /\ seen = 0
  /\ caller = "waiting" /\ breaks = 0

ClusterChanges(n, content) ==
  /\ Len(history) <= MaxChanges
  /\ content # Current[n]
  /\ history' = Append(history, [Current EXCEPT ![n] = content])
  /\ UNCHANGED <<conn, listed, todo, pending, slices, shown, published, seen, caller, breaks>>

Show(view) ==
  /\ slices' = view
  /\ shown' = combined_endpoints(view)
  /\ published' = TRUE

\* watcher::Event::Init, the start of a list
EventInit ==
  /\ conn = "starting"
  /\ conn' = "listing" /\ listed' = Len(history)
  /\ todo' = {n \in Slices : Current[n] # Absent}
  /\ pending' = Empty
  /\ UNCHANGED <<history, slices, shown, published, seen, caller, breaks>>

\* Fault: listed slices take effect one by one.
EventInitApplyDirect(n) ==
  /\ conn = "listing" /\ n \in todo
  /\ todo' = todo \ {n}
  /\ pending' = [pending EXCEPT ![n] = history[listed][n]]
  /\ Show(pending') /\ seen' = listed
  /\ UNCHANGED <<history, conn, listed, caller, breaks>>

EventInitApply(n) ==
  /\ conn = "listing" /\ n \in todo
  /\ todo' = todo \ {n}
  /\ pending' = [pending EXCEPT ![n] = history[listed][n]]
  /\ UNCHANGED <<history, conn, listed, slices, shown, published, seen, caller, breaks>>

EventInitDone ==
  /\ conn = "listing" /\ todo = {}
  /\ conn' = "watching"
  /\ Show(pending) /\ pending' = Empty
  /\ seen' = listed
  /\ UNCHANGED <<history, listed, todo, caller, breaks>>

\* Apply or Delete of the one slice the next revision changed
EventApplyOrDelete ==
  /\ conn = "watching" /\ listed < Len(history)
  /\ listed' = listed + 1 /\ seen' = listed + 1
  /\ LET n == CHOOSE n \in Slices : history[listed + 1][n] # history[listed][n]
     IN  Show([slices EXCEPT ![n] = history[listed + 1][n]])
  /\ UNCHANGED <<history, conn, todo, pending, caller, breaks>>

\* An error from the stream: sleep, then a new watcher; the slices stay.
StreamFails ==
  /\ conn \in {"starting", "listing", "watching"} /\ breaks < MaxBreaks
  /\ conn' = "sleeping" /\ breaks' = breaks + 1
  /\ todo' = {} /\ pending' = Empty
  /\ UNCHANGED <<history, listed, slices, shown, published, seen, caller>>

Reconnect ==
  /\ conn = "sleeping"
  /\ conn' = "starting"
  /\ UNCHANGED <<history, listed, todo, pending, slices, shown, published, seen, caller, breaks>>

\* subscribe waits for the first update, up to startup_timeout.
Started ==
  /\ caller = "waiting" /\ published
  /\ caller' = "subscribed"
  /\ UNCHANGED <<history, conn, listed, todo, pending, slices, shown, published, seen, breaks>>

StartupTimeout ==
  /\ caller = "waiting" /\ ~published
  /\ caller' = "timeout" /\ conn' = "aborted"
  /\ UNCHANGED <<history, listed, todo, pending, slices, shown, published, seen, breaks>>

DropSubscription ==
  /\ caller = "subscribed" /\ conn # "aborted"
  /\ conn' = "aborted"
  /\ UNCHANGED <<history, listed, todo, pending, slices, shown, published, seen, caller, breaks>>

Events == EventInit \/ (\E n \in Slices : EventInitApply(n)) \/ EventInitDone
          \/ EventApplyOrDelete \/ Reconnect

Next ==
  \/ \E n \in Slices, content \in Contents \union {Absent} : ClusterChanges(n, content)
  \/ EventInit \/ (\E n \in Slices : EventInitApply(n)) \/ EventInitDone \/ EventApplyOrDelete
  \/ StreamFails \/ Reconnect \/ Started \/ StartupTimeout \/ DropSubscription

\* The watch task is spawned; breaks are bounded, so the API server answers.
Fairness == WF_vars(Events) /\ WF_vars(Started \/ StartupTimeout)

Spec == Init /\ [][Next]_vars /\ Fairness

-----------------------------------------------------------------------------

\* The shown endpoints are the ready, non-terminating ones of one revision of
\* the cluster, whatever the watcher was doing when a stream broke; a caller
\* gets its subscription only with such a snapshot.
SlicesWereTrue ==
  /\ published => shown = {e.address : e \in {e \in UNION {history[seen][n].endpoints :
                               n \in {n \in Slices : history[seen][n] # Absent /\ history[seen][n].port}} :
                                 e.ready \in {"unset", "true"} /\ e.terminating \in {"unset", "false"}}}
  /\ caller = "subscribed" => published

\* A live subscription ends up showing the cluster as it is.
SlicesConverge == <>[](conn # "aborted" => shown = combined_endpoints(Current))
=============================================================================
