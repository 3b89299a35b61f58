-------------------------- MODULE ServiceRegistry --------------------------
(***************************************************************************)
(* The in-process ServiceRegistry of core/src/discov.rs: reference-counted *)
(* leases, change events on one broadcast channel for all services, and    *)
(* subscriptions that follow one service.                                  *)
(*                                                                         *)
(* publish_endpoint and release change the map under its lock and send the *)
(* event after releasing it, so they are two steps each.  subscribe first  *)
(* takes a receiver and then copies the map.  A receiver that falls behind *)
(* the channel's buffer loses the oldest events and is told so.            *)
(***************************************************************************)
EXTENDS Naturals, Sequences, FiniteSets, FiniteSetTheorems, SequenceTheorems, TLAPS

CONSTANTS
  Services, Uris,
  Metadata,          \* weight and labels of an endpoint, compared as a whole
  Publishers,        \* threads, each with at most one lease
  Subscribers,
  Ownership,         \* pairs: which uris a publisher publishes
  EventBufferSize

ASSUME RegistryConfig ==
  /\ IsFiniteSet(Publishers)
  /\ Ownership \subseteq Publishers \X Uris
  /\ EventBufferSize \in Nat \ {0}

Endpoints == Services \X Uris

VARIABLES
  registry,      \* per endpoint {} or {[metadata, references]}
  lease,         \* per publisher {} or {the endpoint it holds}
  sending,       \* per publisher {} or {the event it has yet to send}
  overtaken,     \* history: endpoints of which two publishers had events to send at once
  view,          \* endpoints of a ServiceSubscription: the uris it knows
  service, pc,   \* the service and the progress of each subscriber
  inbox, lagged  \* its unread events; has it missed some

publisher_vars == <<registry, lease, sending, overtaken>>
subscriber_vars == <<view, service, pc, inbox, lagged>>
vars == <<publisher_vars, subscriber_vars>>

Added(e) == [kind |-> "Added", endpoint |-> e]
Removed(e) == [kind |-> "Removed", endpoint |-> e]
Events == [kind : {"Added", "Removed"}, endpoint : Endpoints]

Published(s) == {u \in Uris : registry[<<s, u>>] # {}}

TypeOK ==
  /\ \A e \in Endpoints :
       \/ registry[e] = {}
       \/ \E m \in Metadata, n \in 1..Cardinality(Publishers) :
            registry[e] = {[metadata |-> m, references |-> n]}
  /\ \A p \in Publishers : lease[p] = {} \/ \E e \in Endpoints : lease[p] = {e}
  /\ \A p \in Publishers : sending[p] = {} \/ \E ev \in Events : sending[p] = {ev}
  /\ overtaken \subseteq Endpoints
  /\ view \in [Subscribers -> SUBSET Uris]
  /\ service \in [Subscribers -> Services]
  /\ pc \in [Subscribers -> {"new", "subscribed", "live", "resync"}]
  /\ \A s \in Subscribers : inbox[s] \in Seq(Events) /\ Len(inbox[s]) <= EventBufferSize
  /\ lagged \in [Subscribers -> BOOLEAN]

Init ==
  /\ registry = [e \in Endpoints |-> {}]
  /\ lease = [p \in Publishers |-> {}]
  /\ sending = [p \in Publishers |-> {}]
  /\ overtaken = {}
  /\ view = [s \in Subscribers |-> {}]
  /\ service \in [Subscribers -> Services]
  /\ pc = [s \in Subscribers |-> "new"]
  /\ inbox = [s \in Subscribers |-> <<>>]
  /\ lagged = [s \in Subscribers |-> FALSE]

-----------------------------------------------------------------------------
(* publish_endpoint and ServiceLease::release                              *)

Idle(p) == lease[p] = {} /\ sending[p] = {}

\* Fault: a second lease on an endpoint is not counted.
PublishUncounted(p, e, m) ==
  /\ Idle(p)
  /\ <<p, e[2]>> \in Ownership
  /\ \A entry \in registry[e] : entry.metadata = m
  /\ registry' = [registry EXCEPT ![e] = {[metadata |-> m, references |-> 1]}]
  /\ sending' = [sending EXCEPT ![p] = IF registry[e] = {} THEN {Added(e)} ELSE {}]
  /\ lease' = [lease EXCEPT ![p] = {e}]
  /\ UNCHANGED <<overtaken, subscriber_vars>>

\* Publishing known metadata again only counts; different metadata is refused.
Publish(p, e, m) ==
  /\ Idle(p)
  /\ <<p, e[2]>> \in Ownership
  /\ \/ /\ registry[e] = {}
        /\ registry' = [registry EXCEPT ![e] = {[metadata |-> m, references |-> 1]}]
        /\ sending' = [sending EXCEPT ![p] = {Added(e)}]
     \/ \E entry \in registry[e] :
          /\ entry.metadata = m
          /\ registry' = [registry EXCEPT ![e] = {[entry EXCEPT !.references = @ + 1]}]
          /\ UNCHANGED sending
  /\ lease' = [lease EXCEPT ![p] = {e}]
  /\ UNCHANGED <<overtaken, subscriber_vars>>

\* release, called or on drop; a second call finds the lease inactive.
Release(p) ==
  /\ sending[p] = {}
  /\ \E e \in lease[p] : \E entry \in registry[e] :
       IF entry.references > 1
       THEN /\ registry' = [registry EXCEPT ![e] = {[entry EXCEPT !.references = @ - 1]}]
            /\ UNCHANGED sending
       ELSE /\ registry' = [registry EXCEPT ![e] = {}]
            /\ sending' = [sending EXCEPT ![p] = {Removed(e)}]
  /\ lease' = [lease EXCEPT ![p] = {}]
  /\ UNCHANGED <<overtaken, subscriber_vars>>

\* broadcast::Sender::send: every receiver gets the event; a full buffer drops its oldest.
Listening == {s \in Subscribers : pc[s] # "new"}

\* The endpoints of p's event and of another publisher's that is still to be sent.
Racing(p) == {e \in Endpoints : /\ \E ev \in sending[p] : ev.endpoint = e
                                /\ \E q \in Publishers \ {p} : \E ev \in sending[q] : ev.endpoint = e}

\* Fault: a full buffer grows.
SendUnbounded(p) ==
  /\ \E ev \in sending[p] :
       inbox' = [s \in Subscribers |-> IF s \in Listening THEN Append(inbox[s], ev) ELSE inbox[s]]
  /\ sending' = [sending EXCEPT ![p] = {}]
  /\ overtaken' = overtaken \cup Racing(p)
  /\ UNCHANGED <<registry, lease, view, service, pc, lagged>>

Send(p) ==
  /\ \E ev \in sending[p] :
       inbox' = [s \in Subscribers |->
                   IF s \notin Listening THEN inbox[s]
                   ELSE IF Len(inbox[s]) < EventBufferSize THEN Append(inbox[s], ev)
                   ELSE Append(Tail(inbox[s]), ev)]
  /\ lagged' = [s \in Subscribers |->
                  lagged[s] \/ (s \in Listening /\ Len(inbox[s]) = EventBufferSize)]
  /\ sending' = [sending EXCEPT ![p] = {}]
  /\ overtaken' = overtaken \cup Racing(p)
  /\ UNCHANGED <<registry, lease, view, service, pc>>

-----------------------------------------------------------------------------
(* ServiceSubscription                                                     *)

Subscribe(s) ==
  /\ pc[s] = "new"
  /\ pc' = [pc EXCEPT ![s] = "subscribed"]
  /\ UNCHANGED <<publisher_vars, view, service, inbox, lagged>>

Snapshot(s) ==
  /\ pc[s] = "subscribed"
  /\ view' = [view EXCEPT ![s] = Published(service[s])]
  /\ pc' = [pc EXCEPT ![s] = "live"]
  /\ UNCHANGED <<publisher_vars, service, inbox, lagged>>

\* recv: an event of another service, or one that changes nothing, is passed over.
Recv(s) ==
  /\ pc[s] = "live" /\ ~lagged[s] /\ inbox[s] # <<>>
  /\ LET ev == Head(inbox[s])
         u  == ev.endpoint[2]
     IN view' = IF ev.endpoint[1] # service[s] THEN view
                ELSE IF ev.kind = "Added" THEN [view EXCEPT ![s] = @ \cup {u}]
                ELSE [view EXCEPT ![s] = @ \ {u}]
  /\ inbox' = [inbox EXCEPT ![s] = Tail(@)]
  /\ UNCHANGED <<publisher_vars, service, pc, lagged>>

\* Fault: the lag is swallowed.
LagIgnored(s) ==
  /\ pc[s] = "live" /\ lagged[s]
  /\ lagged' = [lagged EXCEPT ![s] = FALSE]
  /\ UNCHANGED <<publisher_vars, view, service, pc, inbox>>

\* recv reports the lag and goes on with the oldest event that is left ...
Lag(s) ==
  /\ pc[s] = "live" /\ lagged[s]
  /\ lagged' = [lagged EXCEPT ![s] = FALSE]
  /\ pc' = [pc EXCEPT ![s] = "resync"]
  /\ UNCHANGED <<publisher_vars, view, service, inbox>>

\* ... and changed() copies the map again.
Resync(s) ==
  /\ pc[s] = "resync"
  /\ view' = [view EXCEPT ![s] = Published(service[s])]
  /\ pc' = [pc EXCEPT ![s] = "live"]
  /\ UNCHANGED <<publisher_vars, service, inbox, lagged>>

Next ==
  \/ \E p \in Publishers :
       \/ \E e \in Endpoints, m \in Metadata : Publish(p, e, m)
       \/ Release(p)
       \/ Send(p)
  \/ \E s \in Subscribers :
       Subscribe(s) \/ Snapshot(s) \/ Recv(s) \/ Lag(s) \/ Resync(s)

Spec == Init /\ [][Next]_vars

-----------------------------------------------------------------------------
(* Properties                                                              *)

\* An endpoint is published exactly as long as somebody holds a lease on it, and its reference
\* count is the number of leases: no release underflows it or withdraws another's endpoint.
LeasesCounted ==
  \A e \in Endpoints :
    LET holders == {p \in Publishers : e \in lease[p]}
    IN IF holders = {} THEN registry[e] = {}
       ELSE \E m \in Metadata : registry[e] = {[metadata |-> m, references |-> Cardinality(holders)]}

\* A subscription that has read all its events, with none waiting to be sent, knows exactly the
\* published endpoints of its service, whatever it missed when it subscribed or lagged.
\* An endpoint of which two publishers had events to send at once is excepted: publish_endpoint
\* and release send after they unlock the map, so those events may arrive in the wrong order.
SnapshotInOrder ==
  (\A p \in Publishers : sending[p] = {}) =>
    \A s \in Subscribers, u \in Uris :
      /\ pc[s] = "live" /\ inbox[s] = <<>> /\ ~lagged[s]
      /\ <<service[s], u>> \notin overtaken
      => (u \in view[s] <=> u \in Published(service[s]))

\* The map agrees with the leases, and what subscribers know with the map.
RegistryExact == LeasesCounted /\ SnapshotInOrder

\* SnapshotInOrder without its exception.
SnapshotComplete ==
  (\A p \in Publishers : sending[p] = {}) =>
    \A s \in Subscribers :
      pc[s] = "live" /\ inbox[s] = <<>> /\ ~lagged[s] => view[s] = Published(service[s])

-----------------------------------------------------------------------------
(* Proofs, for any publishers, subscribers, endpoints and size of the      *)
(* buffer.  An event that is still to be sent explains why a subscriber    *)
(* may be behind the map; where none is, the last event of an endpoint in  *)
(* an inbox, or else the view, tells whether the endpoint is published.    *)

Holders(e) == {p \in Publishers : e \in lease[p]}

\* Somebody has an event of e to send.
Pending(e) == \E p \in Publishers : \E ev \in sending[p] : ev.endpoint = e

Typed ==
  /\ registry \in [Endpoints -> SUBSET [metadata : Metadata, references : Nat]]
  /\ lease \in [Publishers -> SUBSET Endpoints]
  /\ sending \in [Publishers -> SUBSET Events]
  /\ view \in [Subscribers -> SUBSET Uris]
  /\ service \in [Subscribers -> Services]
  /\ pc \in [Subscribers -> {"new", "subscribed", "live", "resync"}]
  /\ inbox \in [Subscribers -> Seq(Events)]
  /\ \A s \in Subscribers : Len(inbox[s]) <= EventBufferSize
  /\ lagged \in [Subscribers -> BOOLEAN]

\* Leases and events are one at a time, and who is to announce an endpoint still publishes it.
OneEach ==
  /\ \A p \in Publishers : \A d, e \in lease[p] : d = e
  /\ \A p \in Publishers : \A x, y \in sending[p] : x = y
  /\ \A p \in Publishers : \A ev \in sending[p] : ev.kind = "Added" => ev.endpoint \in lease[p]

\* An endpoint that came back before its withdrawal was sent is to be announced again.
Announced(e) ==
  registry[e] # {} /\ (\E p \in Publishers : Removed(e) \in sending[p])
    => \E q \in Publishers : Added(e) \in sending[q]

\* The i-th event of an inbox is the last one of e.
LastOf(q, e, i) == q[i].endpoint = e /\ \A j \in 1..Len(q) : j > i => q[j].endpoint # e

Told(s, e) ==
  /\ \A i \in 1..Len(inbox[s]) :
       LastOf(inbox[s], e, i) => (inbox[s][i].kind = "Added" <=> registry[e] # {})
  /\ pc[s] = "live" /\ ~lagged[s] /\ e[1] = service[s]
       /\ (\A i \in 1..Len(inbox[s]) : inbox[s][i].endpoint # e)
     => (e[2] \in view[s] <=> registry[e] # {})

Following ==
  /\ \A s \in Subscribers : pc[s] = "new" => inbox[s] = <<>>
  /\ \A e \in Endpoints \ overtaken : Announced(e)
  /\ \A e \in Endpoints \ overtaken : ~Pending(e) => \A s \in Subscribers : Told(s, e)

RegistryInv == Typed /\ OneEach /\ LeasesCounted /\ Following

LEMMA InitRegistry == Init => RegistryInv
<1> SUFFICES ASSUME Init PROVE RegistryInv
  OBVIOUS
<1>1. Typed
  BY RegistryConfig DEF Init, Typed
<1>2. OneEach /\ LeasesCounted
  BY DEF Init, OneEach, LeasesCounted
<1>3. Following
  BY DEF Init, Following, Announced, Told
<1>4. QED
  BY <1>1, <1>2, <1>3 DEF RegistryInv

-----------------------------------------------------------------------------
(* Leases                                                                  *)

\* A lease that is taken or given back changes the holders of its endpoint by one.
LEMMA HoldersMove ==
  ASSUME Typed, OneEach, NEW p \in Publishers, NEW e \in Endpoints
  PROVE  /\ \A d \in Endpoints : IsFiniteSet(Holders(d)) /\ Cardinality(Holders(d)) \in Nat
         /\ lease[p] = {} /\ lease' = [lease EXCEPT ![p] = {e}] =>
              /\ Cardinality(Holders(e)') = Cardinality(Holders(e)) + 1
              /\ \A d \in Endpoints \ {e} : Holders(d)' = Holders(d)
         /\ e \in lease[p] /\ lease' = [lease EXCEPT ![p] = {}] =>
              /\ Cardinality(Holders(e)') = Cardinality(Holders(e)) - 1
              /\ Cardinality(Holders(e)) >= 1
              /\ \A d \in Endpoints \ {e} : Holders(d)' = Holders(d)
<1>1. \A d \in Endpoints : IsFiniteSet(Holders(d)) /\ Cardinality(Holders(d)) \in Nat
  <2>1. \A d \in Endpoints : Holders(d) \in SUBSET Publishers
    BY DEF Holders
  <2>2. QED
    BY <2>1, RegistryConfig, FS_Subset, FS_CardinalityType
<1>2. ASSUME lease[p] = {}, lease' = [lease EXCEPT ![p] = {e}]
      PROVE  /\ Cardinality(Holders(e)') = Cardinality(Holders(e)) + 1
             /\ \A d \in Endpoints \ {e} : Holders(d)' = Holders(d)
  <2>1. Holders(e)' = Holders(e) \cup {p} /\ p \notin Holders(e)
    BY <1>2 DEF Holders, Typed
  <2>2. \A d \in Endpoints \ {e} : Holders(d)' = Holders(d)
    BY <1>2 DEF Holders, Typed
  <2>3. Cardinality(Holders(e) \cup {p}) = Cardinality(Holders(e)) + 1
    BY <1>1, <2>1, FS_AddElement
  <2>4. QED
    BY <2>1, <2>2, <2>3, Zenon
<1>3. ASSUME e \in lease[p], lease' = [lease EXCEPT ![p] = {}]
      PROVE  /\ Cardinality(Holders(e)') = Cardinality(Holders(e)) - 1
             /\ Cardinality(Holders(e)) >= 1
             /\ \A d \in Endpoints \ {e} : Holders(d)' = Holders(d)
  <2>1. Holders(e)' = Holders(e) \ {p} /\ p \in Holders(e)
    BY <1>3 DEF Holders, Typed
  <2>2. \A d \in Endpoints \ {e} : Holders(d)' = Holders(d)
    BY <1>3 DEF Holders, Typed, OneEach
  <2>3. Cardinality(Holders(e) \ {p}) = Cardinality(Holders(e)) - 1
    BY <1>1, <2>1, FS_RemoveElement
  <2>4. Cardinality(Holders(e)) >= 1
    BY <1>1, <2>1, FS_EmptySet
  <2>5. QED
    BY <2>1, <2>2, <2>3, <2>4, Zenon
<1>4. QED
  BY <1>1, <1>2, <1>3

\* The reference count of a published endpoint, as LeasesCounted states it.
Entry(e) == \E m \in Metadata : registry[e] = {[metadata |-> m, references |-> Cardinality(Holders(e))]}

LEMMA CountedEntries == LeasesCounted <=> \A e \in Endpoints : IF Holders(e) = {} THEN registry[e] = {}
                                                               ELSE Entry(e)
BY DEF LeasesCounted, Holders, Entry

\* A change of the map is followed when it leaves the endpoint published or not, or has an event.
LEMMA ChangeFollowed ==
  ASSUME Typed, Following, NEW p \in Publishers, NEW e \in Endpoints,
         UNCHANGED <<overtaken, subscriber_vars>>,
         \A d \in Endpoints \ {e} : registry'[d] = registry[d],
         \/ UNCHANGED sending /\ (registry'[e] = {} <=> registry[e] = {})
         \/ /\ sending[p] = {}
            /\ \/ registry'[e] # {} /\ sending' = [sending EXCEPT ![p] = {Added(e)}]
               \/ registry'[e] = {} /\ sending' = [sending EXCEPT ![p] = {Removed(e)}]
  PROVE  Following'
<1>1. \A s \in Subscribers : pc'[s] = "new" => inbox'[s] = <<>>
  BY DEF Following, subscriber_vars
<1>2. CASE UNCHANGED sending /\ (registry'[e] = {} <=> registry[e] = {})
  <2>1. \A d \in Endpoints : registry'[d] = {} <=> registry[d] = {}
    BY <1>2
  <2>2. \A d \in Endpoints \ overtaken' : Announced(d)'
    BY <1>2, <2>1 DEF Following, Announced
  <2>3. \A d \in Endpoints : Pending(d)' <=> Pending(d)
    BY <1>2 DEF Pending
  <2>4. \A s \in Subscribers, d \in Endpoints : Told(s, d)' <=> Told(s, d)
    BY <2>1 DEF Told, LastOf, subscriber_vars
  <2>5. QED
    BY <1>1, <2>2, <2>3, <2>4 DEF Following
<1>3. ASSUME NEW ev \in {Added(e), Removed(e)}, sending[p] = {}, sending' = [sending EXCEPT ![p] = {ev}],
             registry'[e] # {} <=> ev = Added(e)
      PROVE  Following'
  <2>1. ev.endpoint = e /\ ev \in sending'[p]
    BY <1>3 DEF Added, Removed, Typed
  <2>2. \A q \in Publishers \ {p} : sending'[q] = sending[q]
    BY <1>3 DEF Typed
  <2>3. Pending(e)'
    BY <2>1 DEF Pending
  <2>4. ASSUME NEW d \in Endpoints \ {e}
        PROVE  /\ Pending(d)' <=> Pending(d)
               /\ Announced(d)' <=> Announced(d)
               /\ \A s \in Subscribers : Told(s, d)' <=> Told(s, d)
    <3>1. \A x \in sending'[p] : x.endpoint # d
      BY <1>3, <2>1 DEF Typed
    <3>2. \A x \in sending[p] : x.endpoint # d
      BY <1>3
    <3>3. Pending(d)' <=> Pending(d)
      BY <2>2, <3>1, <3>2 DEF Pending
    <3>4. Added(d).endpoint = d /\ Removed(d).endpoint = d
      BY DEF Added, Removed
    <3>5. registry'[d] = registry[d]
      OBVIOUS
    <3>6. Announced(d)' <=> Announced(d)
      BY <2>2, <3>1, <3>2, <3>4, <3>5 DEF Announced
    <3>7. \A s \in Subscribers : Told(s, d)' <=> Told(s, d)
      BY <3>5 DEF Told, LastOf, subscriber_vars
    <3>8. QED
      BY <3>3, <3>6, <3>7
  <2>5. Announced(e)'
    BY <1>3, <2>1 DEF Announced
  <2>6. QED
    BY <1>1, <2>3, <2>4, <2>5 DEF Following
<1>4. QED
  <2>1. Added(e) # Removed(e)
    BY DEF Added, Removed
  <2>2. QED
    BY <1>2, <1>3, <2>1

LEMMA PublishExact ==
  ASSUME RegistryInv, NEW p \in Publishers, NEW e \in Endpoints, NEW m \in Metadata, Publish(p, e, m)
  PROVE  RegistryInv'
<1>1. Typed /\ OneEach /\ Following /\ lease[p] = {} /\ sending[p] = {}
  BY DEF RegistryInv, Publish, Idle
<1>2. lease' = [lease EXCEPT ![p] = {e}] /\ UNCHANGED <<overtaken, subscriber_vars>>
  BY DEF Publish
<1>3. /\ Cardinality(Holders(e)') = Cardinality(Holders(e)) + 1
      /\ \A d \in Endpoints \ {e} : Holders(d)' = Holders(d)
      /\ IsFiniteSet(Holders(e)) /\ Cardinality(Holders(e)) \in Nat
  BY <1>1, <1>2, HoldersMove
<1>4. \A d \in Endpoints : IF Holders(d) = {} THEN registry[d] = {} ELSE Entry(d)
  BY CountedEntries DEF RegistryInv
<1>5. Holders(e)' # {}
  BY <1>1, <1>2 DEF Holders, Typed
<1>6. \E n \in Metadata : registry' = [registry EXCEPT ![e] =
                            {[metadata |-> n, references |-> Cardinality(Holders(e)) + 1]}]
  <2>1. CASE /\ registry[e] = {}
             /\ registry' = [registry EXCEPT ![e] = {[metadata |-> m, references |-> 1]}]
    <3>1. Holders(e) = {}
      BY <1>4, <2>1 DEF Entry
    <3>2. Cardinality(Holders(e)) = 0
      BY <1>3, <3>1, FS_EmptySet
    <3>3. Cardinality(Holders(e)) + 1 = 1
      BY <3>2
    <3>4. QED
      BY <2>1, <3>3, Zenon
  <2>2. ASSUME NEW entry \in registry[e],
               registry' = [registry EXCEPT ![e] = {[entry EXCEPT !.references = @ + 1]}]
        PROVE  \E n \in Metadata : registry' = [registry EXCEPT ![e] =
                            {[metadata |-> n, references |-> Cardinality(Holders(e)) + 1]}]
    <3>1. PICK n \in Metadata :
            registry[e] = {[metadata |-> n, references |-> Cardinality(Holders(e))]}
      BY <1>4, <2>2 DEF Entry
    <3>2. entry = [metadata |-> n, references |-> Cardinality(Holders(e))]
      BY <2>2, <3>1
    <3>3. [entry EXCEPT !.references = @ + 1] = [metadata |-> n, references |-> Cardinality(Holders(e)) + 1]
      BY <3>2
    <3>4. QED
      BY <2>2, <3>3
  <2>3. QED
    BY <2>1, <2>2 DEF Publish
<1>7. PICK n \in Metadata : registry' = [registry EXCEPT ![e] =
                              {[metadata |-> n, references |-> Cardinality(Holders(e)) + 1]}]
  BY <1>6
<1>8. /\ registry'[e] = {[metadata |-> n, references |-> Cardinality(Holders(e)) + 1]}
      /\ \A d \in Endpoints \ {e} : registry'[d] = registry[d]
  BY <1>1, <1>7 DEF Typed
<1>9. Typed'
  <2>1. Added(e) \in Events
    BY DEF Added, Events
  <2>2. sending' \in [Publishers -> SUBSET Events]
    BY <1>1, <2>1 DEF Publish, Typed
  <2>3. [metadata |-> n, references |-> Cardinality(Holders(e)) + 1] \in [metadata : Metadata, references : Nat]
    BY <1>3
  <2>4. registry' \in [Endpoints -> SUBSET [metadata : Metadata, references : Nat]]
    BY <1>1, <1>7, <2>3 DEF Typed
  <2>5. lease' \in [Publishers -> SUBSET Endpoints]
    BY <1>1, <1>2 DEF Typed
  <2>6. QED
    BY <1>1, <1>2, <2>2, <2>4, <2>5 DEF Typed, subscriber_vars
<1>10. OneEach'
  <2>1. lease'[p] = {e} /\ \A q \in Publishers \ {p} : lease'[q] = lease[q]
    BY <1>1, <1>2 DEF Typed
  <2>2. sending'[p] \subseteq {Added(e)} /\ \A q \in Publishers \ {p} : sending'[q] = sending[q]
    BY <1>1 DEF Typed, Publish
  <2>3. Added(e).endpoint = e
    BY DEF Added
  <2>4. QED
    BY <1>1, <2>1, <2>2, <2>3 DEF OneEach
<1>11. LeasesCounted'
  <2>1. Entry(e)'
    BY <1>3, <1>8 DEF Entry
  <2>2. ASSUME NEW d \in Endpoints \ {e} PROVE IF Holders(d)' = {} THEN registry'[d] = {} ELSE Entry(d)'
    <3>1. registry'[d] = registry[d] /\ Holders(d)' = Holders(d)
      BY <1>3, <1>8
    <3>2. Entry(d)' <=> Entry(d)
      BY <3>1, Zenon DEF Entry
    <3>3. QED
      BY <1>4, <3>1, <3>2
  <2>3. \A d \in Endpoints : IF Holders(d)' = {} THEN registry'[d] = {} ELSE Entry(d)'
    BY <1>5, <2>1, <2>2
  <2>4. QED
    BY <2>3 DEF LeasesCounted, Holders, Entry
<1>12. Following'
  <2>1. registry'[e] # {}
    BY <1>8
  <2>2. \/ UNCHANGED sending /\ registry[e] # {}
        \/ sending' = [sending EXCEPT ![p] = {Added(e)}]
    BY DEF Publish
  <2>3. QED
    BY <1>1, <1>2, <1>8, <2>1, <2>2, ChangeFollowed
<1>13. QED
  BY <1>9, <1>10, <1>11, <1>12 DEF RegistryInv

LEMMA ReleaseExact ==
  ASSUME RegistryInv, NEW p \in Publishers, Release(p)
  PROVE  RegistryInv'
<1>1. Typed /\ OneEach /\ Following /\ sending[p] = {}
  BY DEF RegistryInv, Release
<1>0. PICK e \in lease[p] : \E entry \in registry[e] :
        \/ /\ entry.references > 1
           /\ registry' = [registry EXCEPT ![e] = {[entry EXCEPT !.references = @ - 1]}]
           /\ UNCHANGED sending
        \/ /\ ~(entry.references > 1)
           /\ registry' = [registry EXCEPT ![e] = {}]
           /\ sending' = [sending EXCEPT ![p] = {Removed(e)}]
  BY DEF Release
<1>2. PICK entry \in registry[e] :
        \/ /\ entry.references > 1
           /\ registry' = [registry EXCEPT ![e] = {[entry EXCEPT !.references = @ - 1]}]
           /\ UNCHANGED sending
        \/ /\ ~(entry.references > 1)
           /\ registry' = [registry EXCEPT ![e] = {}]
           /\ sending' = [sending EXCEPT ![p] = {Removed(e)}]
  BY <1>0
<1>3. e \in Endpoints /\ lease' = [lease EXCEPT ![p] = {}] /\ UNCHANGED <<overtaken, subscriber_vars>>
  BY <1>1 DEF Release, Typed
<1>4. /\ Cardinality(Holders(e)') = Cardinality(Holders(e)) - 1
      /\ Cardinality(Holders(e)) >= 1
      /\ \A d \in Endpoints \ {e} : Holders(d)' = Holders(d)
      /\ IsFiniteSet(Holders(e)) /\ Cardinality(Holders(e)) \in Nat
  BY <1>1, <1>3, HoldersMove
<1>5. \A d \in Endpoints : IF Holders(d) = {} THEN registry[d] = {} ELSE Entry(d)
  BY CountedEntries DEF RegistryInv
<1>6. PICK n \in Metadata : entry = [metadata |-> n, references |-> Cardinality(Holders(e))]
  BY <1>2, <1>3, <1>5 DEF Entry
<1>7. \/ /\ Cardinality(Holders(e)) > 1
         /\ registry' = [registry EXCEPT ![e] =
                           {[metadata |-> n, references |-> Cardinality(Holders(e)) - 1]}]
         /\ UNCHANGED sending
      \/ /\ Cardinality(Holders(e)) = 1
         /\ registry' = [registry EXCEPT ![e] = {}]
         /\ sending' = [sending EXCEPT ![p] = {Removed(e)}]
  <2>1. entry.references = Cardinality(Holders(e))
    BY <1>6
  <2>2. [entry EXCEPT !.references = @ - 1] = [metadata |-> n, references |-> Cardinality(Holders(e)) - 1]
    BY <1>6
  <2>3. Cardinality(Holders(e)) > 1 \/ Cardinality(Holders(e)) = 1
    BY <1>4
  <2>4. ~(1 > 1)
    OBVIOUS
  <2>5. QED
    BY <1>2, <2>1, <2>2, <2>3, <2>4, Zenon
<1>8. \A d \in Endpoints \ {e} : registry'[d] = registry[d]
  BY <1>1, <1>7 DEF Typed
<1>9. Typed'
  <2>1. Removed(e) \in Events
    BY <1>3 DEF Removed, Events
  <2>2. sending' \in [Publishers -> SUBSET Events]
    <3>1. sending' = sending \/ sending' = [sending EXCEPT ![p] = {Removed(e)}]
      BY <1>7
    <3>2. {Removed(e)} \in SUBSET Events
      BY <2>1
    <3>3. QED
      BY <1>1, <3>1, <3>2 DEF Typed
  <2>3. [metadata |-> n, references |-> Cardinality(Holders(e)) - 1] \in [metadata : Metadata, references : Nat]
    BY <1>4
  <2>4. registry' \in [Endpoints -> SUBSET [metadata : Metadata, references : Nat]]
    <3> DEFINE left == [metadata |-> n, references |-> Cardinality(Holders(e)) - 1]
    <3>1. registry' = [registry EXCEPT ![e] = {}] \/ registry' = [registry EXCEPT ![e] = {left}]
      BY <1>7
    <3>2. {left} \in SUBSET [metadata : Metadata, references : Nat]
      BY <2>3
    <3> HIDE DEF left
    <3>3. QED
      BY <1>1, <3>1, <3>2 DEF Typed
  <2>5. lease' \in [Publishers -> SUBSET Endpoints]
    BY <1>1, <1>3 DEF Typed
  <2>6. QED
    BY <1>1, <1>3, <2>2, <2>4, <2>5 DEF Typed, subscriber_vars
<1>10. OneEach'
  <2>1. lease'[p] = {} /\ \A q \in Publishers \ {p} : lease'[q] = lease[q]
    BY <1>1, <1>3 DEF Typed
  <2>2. sending'[p] \subseteq {Removed(e)} /\ \A q \in Publishers \ {p} : sending'[q] = sending[q]
    BY <1>1, <1>7 DEF Typed
  <2>3. Removed(e).kind = "Removed"
    BY DEF Removed
  <2>4. QED
    BY <1>1, <2>1, <2>2, <2>3 DEF OneEach
<1>11. /\ Holders(e)' = {} => registry'[e] = {}
       /\ Holders(e)' # {} => Entry(e)'
  <2>0. IsFiniteSet(Holders(e)')
    <3>1. Holders(e)' \in SUBSET Publishers
      BY DEF Holders
    <3>2. QED
      BY <3>1, RegistryConfig, FS_Subset
  <2>1. Holders(e)' = {} <=> Cardinality(Holders(e)') = 0
    BY <2>0, FS_EmptySet
  <2>2. CASE Cardinality(Holders(e)) = 1 /\ registry' = [registry EXCEPT ![e] = {}]
    <3>1. Cardinality(Holders(e)') = 0
      BY <1>4, <2>2
    <3>2. registry'[e] = {}
      BY <1>1, <1>3, <2>2 DEF Typed
    <3>3. QED
      BY <2>1, <3>1, <3>2
  <2>3. CASE /\ Cardinality(Holders(e)) > 1
             /\ registry' = [registry EXCEPT ![e] =
                           {[metadata |-> n, references |-> Cardinality(Holders(e)) - 1]}]
    <3>1. Cardinality(Holders(e)') # 0
      BY <1>4, <2>3
    <3>2. registry'[e] = {[metadata |-> n, references |-> Cardinality(Holders(e)) - 1]}
      BY <1>1, <1>3, <2>3 DEF Typed
    <3>3. Entry(e)'
      BY <1>4, <3>2, Zenon DEF Entry
    <3>4. QED
      BY <2>1, <3>1, <3>3
  <2>4. QED
    BY <1>7, <2>2, <2>3
<1>12. LeasesCounted'
  <2>1. ASSUME NEW d \in Endpoints \ {e} PROVE IF Holders(d)' = {} THEN registry'[d] = {} ELSE Entry(d)'
    <3>1. registry'[d] = registry[d] /\ Holders(d)' = Holders(d)
      BY <1>4, <1>8
    <3>2. Entry(d)' <=> Entry(d)
      BY <3>1, Zenon DEF Entry
    <3>3. QED
      BY <1>5, <3>1, <3>2
  <2>2. \A d \in Endpoints : IF Holders(d)' = {} THEN registry'[d] = {} ELSE Entry(d)'
    BY <1>11, <2>1
  <2>3. QED
    BY <2>2 DEF LeasesCounted, Holders, Entry
<1>13. Following'
  <2>1. registry[e] # {}
    BY <1>2
  <2>2. \/ UNCHANGED sending /\ registry'[e] # {}
        \/ registry'[e] = {} /\ sending' = [sending EXCEPT ![p] = {Removed(e)}]
    BY <1>1, <1>3, <1>7 DEF Typed
  <2>3. QED
    BY <1>1, <1>3, <1>8, <2>1, <2>2, ChangeFollowed
<1>14. QED
  BY <1>9, <1>10, <1>12, <1>13 DEF RegistryInv

-----------------------------------------------------------------------------
(* Events                                                                  *)

Buffered(q, ev) == IF Len(q) < EventBufferSize THEN Append(q, ev) ELSE Append(Tail(q), ev)

\* r holds what is left of q, without its oldest event if q was full, and ev at its end.
Delivery(q, ev, r) ==
  /\ r \in Seq(Events) /\ Len(r) \in 1..EventBufferSize /\ r[Len(r)] = ev
  /\ \E d \in {0, 1} : /\ d = 0 <=> Len(q) < EventBufferSize
                       /\ Len(r) = Len(q) + 1 - d
                       /\ \A i \in 1..(Len(r) - 1) : r[i] = q[i + d]

LEMMA Delivered ==
  ASSUME NEW q \in Seq(Events), NEW ev \in Events, Len(q) <= EventBufferSize
  PROVE  Delivery(q, ev, Buffered(q, ev))
<1> DEFINE r == Buffered(q, ev)
<1>0. EventBufferSize \in Nat \ {0} /\ Len(q) \in Nat
  BY RegistryConfig
<1>1. CASE Len(q) < EventBufferSize
  <2>1. r = Append(q, ev)
    BY <1>1 DEF Buffered
  <2> HIDE DEF r
  <2>2. /\ r \in Seq(Events) /\ Len(r) = Len(q) + 1 /\ r[Len(q) + 1] = ev
        /\ \A i \in 1..Len(q) : r[i] = q[i]
    <3>1. /\ Append(q, ev) \in Seq(Events) /\ Len(Append(q, ev)) = Len(q) + 1
          /\ Append(q, ev)[Len(q) + 1] = ev
          /\ \A i \in 1..Len(q) : Append(q, ev)[i] = q[i]
      BY AppendProperties
    <3>2. QED
      BY <2>1, <3>1, Zenon
  <2>3. \A i \in 1..(Len(r) - 1) : r[i] = q[i + 0]
    BY <1>0, <2>2
  <2>4. Delivery(q, ev, r)
    BY <1>0, <1>1, <2>2, <2>3 DEF Delivery
  <2>5. QED
    BY <2>4 DEF r
<1>2. CASE ~(Len(q) < EventBufferSize)
  <2>1. Len(q) = EventBufferSize /\ q # <<>>
    BY <1>0, <1>2
  <2>2. /\ Tail(q) \in Seq(Events) /\ Len(Tail(q)) = Len(q) - 1
        /\ \A i \in 1..(Len(q) - 1) : Tail(q)[i] = q[i + 1]
    BY <2>1
  <2>3. r = Append(Tail(q), ev)
    BY <1>2 DEF Buffered
  <2> HIDE DEF r
  <2>4. /\ r \in Seq(Events) /\ Len(r) = Len(Tail(q)) + 1 /\ r[Len(Tail(q)) + 1] = ev
        /\ \A i \in 1..Len(Tail(q)) : r[i] = Tail(q)[i]
    <3>1. /\ Append(Tail(q), ev) \in Seq(Events) /\ Len(Append(Tail(q), ev)) = Len(Tail(q)) + 1
          /\ Append(Tail(q), ev)[Len(Tail(q)) + 1] = ev
          /\ \A i \in 1..Len(Tail(q)) : Append(Tail(q), ev)[i] = Tail(q)[i]
      BY <2>2, AppendProperties
    <3>2. QED
      BY <2>3, <3>1, Zenon
  <2>5. Len(r) = Len(q)
    BY <1>0, <2>2, <2>4
  <2>6. \A i \in 1..(Len(r) - 1) : r[i] = q[i + 1]
    BY <1>0, <2>2, <2>4, <2>5
  <2>7. r[Len(r)] = ev
    BY <1>0, <2>2, <2>4
  <2>8. Delivery(q, ev, r)
    BY <1>0, <1>2, <2>1, <2>4, <2>5, <2>6, <2>7 DEF Delivery
  <2>9. QED
    BY <2>8 DEF r
<1>3. QED
  BY <1>1, <1>2

\* The last event of e in r is the last one in q, and so is having none, unless q lost an event.
SameLast(q, r, e) ==
  /\ \A i \in 1..Len(r) : LastOf(r, e, i) =>
       \E j \in 1..Len(q) : LastOf(q, e, j) /\ q[j] = r[i]
  /\ Len(q) < EventBufferSize /\ (\A i \in 1..Len(r) : r[i].endpoint # e)
       => \A i \in 1..Len(q) : q[i].endpoint # e

\* An event of another endpoint changes nothing about which event of e is the last.
LEMMA LastKept ==
  ASSUME NEW q \in Seq(Events), NEW ev \in Events, NEW r, NEW e,
         Delivery(q, ev, r), ev.endpoint # e
  PROVE  SameLast(q, r, e)
<1>1. r \in Seq(Events) /\ Len(r) \in Nat /\ Len(q) \in Nat /\ r[Len(r)] = ev
  BY RegistryConfig DEF Delivery
<1>2. PICK d \in {0, 1} : /\ d = 0 <=> Len(q) < EventBufferSize
                          /\ Len(r) = Len(q) + 1 - d
                          /\ \A i \in 1..(Len(r) - 1) : r[i] = q[i + d]
  BY DEF Delivery
<1>3. ASSUME NEW i \in 1..Len(r), LastOf(r, e, i)
      PROVE  \E j \in 1..Len(q) : LastOf(q, e, j) /\ q[j] = r[i]
  <2>1. r[i].endpoint = e /\ \A j \in 1..Len(r) : j > i => r[j].endpoint # e
    BY <1>3 DEF LastOf
  <2>2. i # Len(r)
    BY <1>1, <2>1
  <2>3. i \in 1..(Len(r) - 1) /\ i + d \in 1..Len(q)
    BY <1>1, <1>2, <2>2
  <2>4. r[i] = q[i + d]
    BY <1>2, <2>3
  <2>5. ASSUME NEW j \in 1..Len(q), j > i + d PROVE q[j].endpoint # e
    <3>1. j - d \in 1..(Len(r) - 1) /\ j - d > i /\ j - d \in 1..Len(r) /\ j - d + d = j
      BY <1>1, <1>2, <2>3, <2>5
    <3>2. r[j - d] = q[j - d + d]
      BY <1>2, <3>1
    <3>3. r[j - d] = q[j]
      BY <3>1, <3>2
    <3>4. QED
      BY <2>1, <3>1, <3>3
  <2>6. QED
    BY <2>1, <2>3, <2>4, <2>5 DEF LastOf
<1>4. ASSUME Len(q) < EventBufferSize, \A i \in 1..Len(r) : r[i].endpoint # e, NEW i \in 1..Len(q)
      PROVE  q[i].endpoint # e
  <2>1. d = 0 /\ i \in 1..(Len(r) - 1) /\ i \in 1..Len(r)
    BY <1>1, <1>2, <1>4
  <2>2. r[i] = q[i + 0] /\ i + 0 = i
    BY <1>2, <2>1
  <2>3. QED
    BY <1>4, <2>1, <2>2
<1>5. QED
  BY <1>3, <1>4 DEF SameLast

LEMMA SendExact ==
  ASSUME RegistryInv, NEW p \in Publishers, Send(p)
  PROVE  RegistryInv'
<1>1. Typed /\ OneEach /\ LeasesCounted /\ Following
  BY DEF RegistryInv
<1>2. PICK ev \in sending[p] :
        inbox' = [s \in Subscribers |->
                    IF s \notin Listening THEN inbox[s]
                    ELSE IF Len(inbox[s]) < EventBufferSize THEN Append(inbox[s], ev)
                    ELSE Append(Tail(inbox[s]), ev)]
  BY DEF Send
<1>3. /\ sending' = [sending EXCEPT ![p] = {}] /\ overtaken' = overtaken \cup Racing(p)
      /\ UNCHANGED <<registry, lease, view, service, pc>>
  BY DEF Send
<1>4. ev \in Events /\ ev.endpoint \in Endpoints /\ ev.kind \in {"Added", "Removed"}
  BY <1>1, <1>2 DEF Typed, Events
<1>5. sending'[p] = {} /\ \A q \in Publishers \ {p} : sending'[q] = sending[q]
  BY <1>1, <1>3 DEF Typed
<1>6. \A s \in Subscribers : IF s \in Listening
        THEN inbox'[s] = Buffered(inbox[s], ev) ELSE inbox'[s] = inbox[s]
  BY <1>2 DEF Buffered
<1>7. \A s \in Subscribers : inbox[s] \in Seq(Events) /\ Len(inbox[s]) <= EventBufferSize
  BY <1>1 DEF Typed
<1>8. \A s \in Listening : Delivery(inbox[s], ev, inbox'[s])
  <2>1. \A s \in Listening : Delivery(inbox[s], ev, Buffered(inbox[s], ev))
    BY <1>4, <1>7, Delivered DEF Listening
  <2>2. QED
    BY <1>6, <2>1 DEF Listening
<1>9. Typed'
  <2>1. \A s \in Subscribers : inbox'[s] \in Seq(Events) /\ Len(inbox'[s]) <= EventBufferSize
    <3> SUFFICES ASSUME NEW s \in Subscribers
                 PROVE  inbox'[s] \in Seq(Events) /\ Len(inbox'[s]) <= EventBufferSize
      OBVIOUS
    <3>1. CASE s \notin Listening
      BY <1>6, <1>7, <3>1
    <3>2. CASE s \in Listening
      <4>1. inbox'[s] \in Seq(Events) /\ Len(inbox'[s]) \in 1..EventBufferSize
        BY <1>8, <3>2 DEF Delivery
      <4>2. QED
        BY <4>1, RegistryConfig
    <3>3. QED
      BY <3>1, <3>2
  <2>2. inbox' \in [Subscribers -> Seq(Events)]
    BY <1>2, <2>1
  <2>3. lagged' \in [Subscribers -> BOOLEAN]
    BY <1>1 DEF Send, Typed
  <2>4. sending' \in [Publishers -> SUBSET Events]
    BY <1>1, <1>3 DEF Typed
  <2>5. QED
    BY <1>1, <1>3, <2>1, <2>2, <2>3, <2>4 DEF Typed
<1>10. OneEach'
  BY <1>1, <1>3, <1>5 DEF OneEach
<1>11. LeasesCounted'
  BY <1>1, <1>3 DEF LeasesCounted
<1>12. \A s \in Subscribers : pc'[s] = "new" => inbox'[s] = <<>>
  BY <1>1, <1>3, <1>6 DEF Following, Listening
<1>13. ASSUME NEW e \in Endpoints, e \notin overtaken' PROVE Announced(e)'
  <2>1. e \notin overtaken /\ e \notin Racing(p) /\ Announced(e)
    BY <1>1, <1>3, <1>13 DEF Following
  <2>2. SUFFICES ASSUME registry[e] # {}, NEW q \in Publishers, Removed(e) \in sending'[q]
                 PROVE  \E q1 \in Publishers : Added(e) \in sending'[q1]
    BY <1>3 DEF Announced
  <2>3. q # p /\ Removed(e) \in sending[q]
    BY <1>5, <2>2
  <2>4. PICK q1 \in Publishers : Added(e) \in sending[q1]
    BY <2>1, <2>2, <2>3 DEF Announced
  <2>5. Added(e).endpoint = e /\ Removed(e).endpoint = e
    BY DEF Added, Removed
  <2>6. q1 # p
    BY <2>1, <2>3, <2>4, <2>5 DEF Racing
  <2>7. QED
    BY <1>5, <2>4, <2>6
<1>14. ASSUME NEW e \in Endpoints, e \notin overtaken', ~Pending(e)', NEW s \in Subscribers PROVE Told(s, e)'
  <2>1. e \notin overtaken
    BY <1>3, <1>14
  <2>2. CASE e = ev.endpoint
    <3>1. ev.kind = "Added" <=> registry[e] # {}
      <4>1. ASSUME ev.kind = "Added" PROVE registry[e] # {}
        <5>1. e \in lease[p]
          BY <1>1, <1>2, <2>2, <4>1 DEF OneEach
        <5>2. Holders(e) # {}
          BY <5>1 DEF Holders
        <5>3. QED
          BY <1>1, <5>2, CountedEntries DEF Entry
      <4>2. ASSUME ev.kind = "Removed", registry[e] # {} PROVE FALSE
        <5>1. ev = Removed(e)
          BY <1>4, <2>2, <4>2 DEF Removed, Events
        <5>2. PICK q \in Publishers : Added(e) \in sending[q]
          BY <1>1, <1>2, <2>1, <4>2, <5>1 DEF Following, Announced
        <5>3. Added(e) # Removed(e) /\ Added(e).endpoint = e
          BY DEF Added, Removed
        <5>4. q # p
          BY <1>1, <1>2, <5>1, <5>2, <5>3 DEF OneEach
        <5>5. QED
          BY <1>5, <1>14, <5>2, <5>3, <5>4 DEF Pending
      <4>3. QED
        BY <1>4, <4>1, <4>2
    <3>2. CASE s \in Listening
      <4>1. inbox'[s] \in Seq(Events) /\ Len(inbox'[s]) \in 1..EventBufferSize /\ inbox'[s][Len(inbox'[s])] = ev
        BY <1>8, <3>2 DEF Delivery
      <4>2. Len(inbox'[s]) \in 1..Len(inbox'[s])
        BY <4>1, RegistryConfig
      <4>3. ASSUME NEW i \in 1..Len(inbox'[s]), LastOf(inbox'[s], e, i) PROVE i = Len(inbox'[s])
        <5>1. \A j \in 1..Len(inbox'[s]) : j > i => inbox'[s][j].endpoint # e
          BY <4>3 DEF LastOf
        <5>2. ~(Len(inbox'[s]) > i)
          BY <2>2, <4>1, <4>2, <5>1
        <5>3. QED
          BY <4>1, <5>2, RegistryConfig
      <4>4. QED
        BY <1>3, <2>2, <3>1, <4>1, <4>2, <4>3 DEF Told
    <3>3. CASE s \notin Listening
      <4>1. pc'[s] = "new" /\ inbox'[s] = <<>>
        BY <1>3, <1>12, <3>3 DEF Listening
      <4>2. QED
        BY <4>1 DEF Told
    <3>4. QED
      BY <3>2, <3>3
  <2>3. CASE e # ev.endpoint
    <3>1. ~Pending(e)
      BY <1>1, <1>2, <1>5, <1>14, <2>3 DEF Pending, OneEach
    <3>2. Told(s, e)
      BY <1>1, <2>1, <3>1 DEF Following
    <3>3. CASE s \in Listening
      <4> DEFINE q == inbox[s]
                 r == inbox'[s]
      <4>1. SameLast(q, r, e)
        BY <1>4, <1>7, <1>8, <2>3, <3>3, LastKept
      <4>2. ~lagged'[s] => ~lagged[s] /\ Len(q) < EventBufferSize
        <5>1. Len(q) \in Nat /\ Len(q) <= EventBufferSize
          BY <1>7
        <5>2. ~lagged'[s] => ~lagged[s] /\ Len(q) # EventBufferSize
          BY <1>1, <3>3 DEF Send, Typed
        <5>3. QED
          BY <5>1, <5>2, RegistryConfig
      <4>3. QED
        BY <1>3, <3>2, <4>1, <4>2 DEF Told, SameLast
    <3>4. CASE s \notin Listening
      <4>1. pc'[s] = "new" /\ inbox'[s] = <<>>
        BY <1>3, <1>12, <3>4 DEF Listening
      <4>2. QED
        BY <4>1 DEF Told
    <3>5. QED
      BY <3>3, <3>4
  <2>4. QED
    BY <2>2, <2>3
<1>15. QED
  BY <1>9, <1>10, <1>11, <1>12, <1>13, <1>14 DEF RegistryInv, Following

-----------------------------------------------------------------------------
(* Subscribers                                                             *)

\* Subscribe, Snapshot, Resync and Lag leave the events alone: a view is copied or not in use.
LEMMA CopyExact ==
  ASSUME RegistryInv, NEW s \in Subscribers, Subscribe(s) \/ Snapshot(s) \/ Resync(s) \/ Lag(s)
  PROVE  RegistryInv'
<1>1. Typed /\ OneEach /\ LeasesCounted /\ Following
  BY DEF RegistryInv
<1>2. UNCHANGED <<registry, lease, sending, overtaken, service, inbox>>
  BY DEF Subscribe, Snapshot, Resync, Lag, publisher_vars
<1>3. /\ \A t \in Subscribers \ {s} : pc'[t] = pc[t] /\ view'[t] = view[t] /\ lagged'[t] = lagged[t]
      /\ pc'[s] # "new"
      /\ pc'[s] = "live" => view'[s] = Published(service[s])
  BY <1>1 DEF Subscribe, Snapshot, Resync, Lag, Typed
<1>4. Typed'
  <2>1. Published(service[s]) \in SUBSET Uris
    BY DEF Published
  <2>2. view' \in [Subscribers -> SUBSET Uris]
    BY <1>1, <2>1 DEF Typed, Subscribe, Snapshot, Resync, Lag
  <2>3. /\ pc' \in [Subscribers -> {"new", "subscribed", "live", "resync"}]
        /\ lagged' \in [Subscribers -> BOOLEAN]
    BY <1>1 DEF Typed, Subscribe, Snapshot, Resync, Lag
  <2>4. QED
    BY <1>1, <1>2, <2>2, <2>3 DEF Typed
<1>5. OneEach' /\ LeasesCounted'
  BY <1>1, <1>2 DEF OneEach, LeasesCounted
<1>6. ASSUME NEW t \in Subscribers, NEW e \in Endpoints, Told(t, e) PROVE Told(t, e)'
  <2>1. CASE t # s
    BY <1>2, <1>3, <1>6, <2>1 DEF Told
  <2>2. CASE t = s
    <3>1. e[2] \in Uris /\ e = <<e[1], e[2]>>
      BY DEF Endpoints
    <3>2. e[1] = service[s] => (e[2] \in Published(service[s]) <=> registry[e] # {})
      BY <3>1 DEF Published
    <3>3. QED
      BY <1>2, <1>3, <1>6, <2>2, <3>2 DEF Told
  <2>3. QED
    BY <2>1, <2>2
<1>7. Following'
  <2>1. \A t \in Subscribers : pc'[t] = "new" => inbox'[t] = <<>>
    BY <1>1, <1>2, <1>3 DEF Following
  <2>2. \A e \in Endpoints : (Announced(e)' <=> Announced(e)) /\ (Pending(e)' <=> Pending(e))
    BY <1>2 DEF Announced, Pending
  <2>3. QED
    BY <1>1, <1>2, <1>6, <2>1, <2>2 DEF Following
<1>8. QED
  BY <1>4, <1>5, <1>7 DEF RegistryInv

LEMMA RecvExact ==
  ASSUME RegistryInv, NEW s \in Subscribers, Recv(s)
  PROVE  RegistryInv'
<1> DEFINE q == inbox[s]
           r == inbox'[s]
           ev == Head(q)
<1>1. Typed /\ OneEach /\ LeasesCounted /\ Following
  BY DEF RegistryInv
<1>2. /\ UNCHANGED <<registry, lease, sending, overtaken, service, pc, lagged>>
      /\ pc[s] = "live" /\ ~lagged[s] /\ q # <<>> /\ q \in Seq(Events) /\ Len(q) <= EventBufferSize
  BY <1>1 DEF Recv, publisher_vars, Typed
<1>3. inbox' = [inbox EXCEPT ![s] = Tail(@)]
  BY DEF Recv
<1>4. r = Tail(q) /\ \A t \in Subscribers \ {s} : inbox'[t] = inbox[t]
  BY <1>1, <1>3 DEF Typed
<1>5. /\ r \in Seq(Events) /\ Len(r) = Len(q) - 1 /\ Len(q) \in Nat /\ Len(q) >= 1
      /\ ev = q[1] /\ ev \in Events
      /\ \A i \in 1..Len(r) : r[i] = q[i + 1]
  BY <1>2, <1>4
<1>6. view' = IF ev.endpoint[1] # service[s] THEN view
              ELSE IF ev.kind = "Added" THEN [view EXCEPT ![s] = @ \cup {ev.endpoint[2]}]
              ELSE [view EXCEPT ![s] = @ \ {ev.endpoint[2]}]
  BY DEF Recv
<1>7. ev.endpoint[1] \in Services /\ ev.endpoint[2] \in Uris /\ ev.endpoint = <<ev.endpoint[1], ev.endpoint[2]>>
  BY <1>5 DEF Events, Endpoints
<1> HIDE DEF q, r, ev
<1>8. Typed'
  <2>1. view' \in [Subscribers -> SUBSET Uris]
    BY <1>1, <1>6, <1>7 DEF Typed
  <2>2. inbox' \in [Subscribers -> Seq(Events)]
    BY <1>1, <1>3, <1>4, <1>5 DEF Typed, r, q
  <2>3. \A t \in Subscribers : Len(inbox'[t]) <= EventBufferSize
    <3>1. Len(inbox'[s]) <= EventBufferSize
      BY <1>2, <1>5, RegistryConfig DEF r
    <3>2. QED
      BY <1>1, <1>4, <3>1 DEF Typed
  <2>4. QED
    BY <1>1, <1>2, <2>1, <2>2, <2>3 DEF Typed
<1>9. OneEach' /\ LeasesCounted'
  BY <1>1, <1>2 DEF OneEach, LeasesCounted
<1>10. ASSUME NEW t \in Subscribers, NEW e \in Endpoints, Told(t, e) PROVE Told(t, e)'
  <2>1. CASE t # s
    <3>1. view'[t] = view[t]
      BY <1>1, <1>6, <2>1 DEF Typed
    <3>2. QED
      BY <1>2, <1>4, <1>10, <2>1, <3>1 DEF Told
  <2>2. CASE t = s
    <3>1. ASSUME NEW i \in 1..Len(r), LastOf(r, e, i) PROVE r[i].kind = "Added" <=> registry[e] # {}
      <4>1. i + 1 \in 1..Len(q) /\ q[i + 1] = r[i]
        BY <1>5, <3>1
      <4>2. ASSUME NEW j \in 1..Len(q), j > i + 1 PROVE q[j].endpoint # e
        <5>1. j - 1 \in 1..Len(r) /\ j - 1 > i /\ j - 1 + 1 = j
          BY <1>5, <3>1, <4>2
        <5>2. r[j - 1] = q[j]
          BY <1>5, <5>1
        <5>3. QED
          BY <3>1, <5>1, <5>2 DEF LastOf
      <4>3. LastOf(q, e, i + 1)
        BY <3>1, <4>1, <4>2 DEF LastOf
      <4>4. QED
        BY <1>10, <2>2, <4>1, <4>3 DEF Told, q
    <3>2. ASSUME \A i \in 1..Len(r) : r[i].endpoint # e, e[1] = service[s]
          PROVE  e[2] \in view'[s] <=> registry[e] # {}
      <4>1. ASSUME NEW j \in 1..Len(q), j > 1 PROVE q[j].endpoint # e
        <5>1. j - 1 \in 1..Len(r) /\ j - 1 + 1 = j
          BY <1>5, <4>1
        <5>2. r[j - 1] = q[j]
          BY <1>5, <5>1
        <5>3. QED
          BY <3>2, <5>1, <5>2
      <4>2. CASE ev.endpoint = e
        <5>1. LastOf(q, e, 1) /\ 1 \in 1..Len(q)
          BY <1>5, <4>1, <4>2 DEF LastOf
        <5>2. ev.kind = "Added" <=> registry[e] # {}
          BY <1>5, <1>10, <2>2, <5>1 DEF Told, q
        <5>3. e[2] \in view'[s] <=> ev.kind = "Added"
          BY <1>1, <1>6, <3>2, <4>2 DEF Typed
        <5>4. QED
          BY <5>2, <5>3
      <4>3. CASE ev.endpoint # e
        <5>1. \A j \in 1..Len(q) : q[j].endpoint # e
          BY <1>5, <4>1, <4>3
        <5>2. e[2] \in view[s] <=> registry[e] # {}
          BY <1>2, <1>10, <2>2, <3>2, <5>1 DEF Told, q
        <5>3. e = <<e[1], e[2]>>
          BY DEF Endpoints
        <5>4. ev.endpoint[1] = service[s] => ev.endpoint[2] # e[2]
          BY <1>7, <3>2, <4>3, <5>3
        <5>5. e[2] \in view'[s] <=> e[2] \in view[s]
          BY <1>1, <1>6, <5>4 DEF Typed
        <5>6. QED
          BY <5>2, <5>5
      <4>4. QED
        BY <4>2, <4>3
    <3>3. QED
      BY <1>2, <2>2, <3>1, <3>2 DEF Told, r
  <2>3. QED
    BY <2>1, <2>2
<1>11. Following'
  <2>1. \A t \in Subscribers : pc'[t] = "new" => inbox'[t] = <<>>
    BY <1>1, <1>2, <1>4 DEF Following
  <2>2. \A e \in Endpoints : (Announced(e)' <=> Announced(e)) /\ (Pending(e)' <=> Pending(e))
    BY <1>2 DEF Announced, Pending
  <2>3. QED
    BY <1>1, <1>2, <1>10, <2>1, <2>2 DEF Following
<1>12. QED
  BY <1>8, <1>9, <1>11 DEF RegistryInv

LEMMA NextRegistry == RegistryInv /\ [Next]_vars => RegistryInv'
<1> SUFFICES ASSUME RegistryInv, [Next]_vars PROVE RegistryInv'
  OBVIOUS
<1>1. ASSUME NEW p \in Publishers, NEW e \in Endpoints, NEW m \in Metadata, Publish(p, e, m)
      PROVE  RegistryInv'
  BY <1>1, PublishExact
<1>2. ASSUME NEW p \in Publishers, Release(p) PROVE RegistryInv'
  BY <1>2, ReleaseExact
<1>3. ASSUME NEW p \in Publishers, Send(p) PROVE RegistryInv'
  BY <1>3, SendExact
<1>4. ASSUME NEW s \in Subscribers, Subscribe(s) \/ Snapshot(s) \/ Resync(s) \/ Lag(s) PROVE RegistryInv'
  BY <1>4, CopyExact
<1>5. ASSUME NEW s \in Subscribers, Recv(s) PROVE RegistryInv'
  BY <1>5, RecvExact
<1>6. CASE UNCHANGED vars
  <2>1. UNCHANGED <<registry, lease, sending, overtaken, view, service, pc, inbox, lagged>>
    BY <1>6 DEF vars, publisher_vars, subscriber_vars
  <2>2. Typed'
    BY <2>1 DEF RegistryInv, Typed
  <2>3. OneEach' /\ LeasesCounted'
    BY <2>1 DEF RegistryInv, OneEach, LeasesCounted
  <2>4. \A e \in Endpoints : (Announced(e)' <=> Announced(e)) /\ (Pending(e)' <=> Pending(e))
    BY <2>1 DEF Announced, Pending
  <2>5. \A s \in Subscribers, e \in Endpoints : Told(s, e)' <=> Told(s, e)
    BY <2>1 DEF Told
  <2>6. Following'
    BY <2>1, <2>4, <2>5 DEF RegistryInv, Following
  <2>7. QED
    BY <2>2, <2>3, <2>6 DEF RegistryInv
<1>7. QED
  BY <1>1, <1>2, <1>3, <1>4, <1>5, <1>6 DEF Next

\* For any number of publishers and subscribers and any size of the event buffer, the reference
\* count of an endpoint is the number of leases on it, and a subscription that has read its events
\* knows exactly the published endpoints, unless events of one endpoint overtook each other.
THEOREM RegistryIsExact == Spec => []RegistryExact
<1>1. RegistryInv => RegistryExact
  <2> SUFFICES ASSUME RegistryInv, \A p \in Publishers : sending[p] = {},
                      NEW s \in Subscribers, NEW u \in Uris,
                      pc[s] = "live", inbox[s] = <<>>, ~lagged[s], <<service[s], u>> \notin overtaken
               PROVE  u \in view[s] <=> u \in Published(service[s])
    BY DEF RegistryExact, SnapshotInOrder, RegistryInv
  <2> DEFINE e == <<service[s], u>>
  <2>1. e \in Endpoints /\ e[1] = service[s] /\ e[2] = u
    BY DEF RegistryInv, Typed, Endpoints
  <2>2. ~Pending(e)
    BY DEF Pending
  <2>3. Told(s, e)
    BY <2>1, <2>2 DEF RegistryInv, Following
  <2> HIDE DEF e
  <2>4. u \in view[s] <=> registry[e] # {}
    BY <2>1, <2>3 DEF Told
  <2>5. QED
    BY <2>4 DEF Published, e
<1>2. QED
  BY <1>1, InitRegistry, NextRegistry, PTL DEF Spec
=============================================================================
