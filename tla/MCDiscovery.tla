----------------------------- MODULE MCDiscovery ------------------------------
(***************************************************************************)
(* State that lives elsewhere: etcd registration and subscription,          *)
(* Kubernetes endpoint slices, the RPC channel that follows a subscription  *)
(* and the Redis lock. They share no state; a behaviour is about one of     *)
(* them, chosen initially. The invariants are those DiscoveryProofs proves  *)
(* for every value of the constants.                                        *)
(***************************************************************************)
EXTENDS DiscoveryProofs, TLC

VARIABLE focus  \* the component this behaviour is about

\* Both servers register under one key.
MCKeyOf == [s \in Servers |-> "k1"]

Endpoint(x, r, t) == [address |-> x, ready |-> r, terminating |-> t]
MCContents == {[port |-> TRUE, endpoints |-> {Endpoint("a", "unset", "unset")}],
               [port |-> TRUE, endpoints |-> {Endpoint("a", "true", "true"), Endpoint("b", "true", "false")}],
               [port |-> FALSE, endpoints |-> {Endpoint("b", "false", "unset")}]}

\* Weights of two endpoints and one with a malformed URI, and the order of their hashes.
MCSnapshots == {[a |-> 0, b |-> 0, m |-> 0], [a |-> 2, b |-> 1, m |-> 0], [a |-> 1, b |-> 0, m |-> 1]}
MCRank == [a |-> 2, b |-> 1, m |-> 3]

lockVars == <<lock_key, held, lock_call, wire, answer, calls, lapsed, doubtful>>
allVars == <<focus, etcdVars, kubeVars, channelVars, lockVars>>

\* The component in focus moves, the others rest.
On(tag) == focus = tag /\ UNCHANGED focus
moving ==
  CASE focus = "etcd" -> etcdVars
    [] focus = "kube" -> kubeVars
    [] focus = "channel" -> channelVars
    [] focus = "lock" -> lockVars
\* A component out of focus rests in one of its initial states.
MCInit ==
  /\ focus \in {"etcd", "kube", "channel", "lock"}
  /\ Etcd!Init
  /\ Kube!Init /\ (focus = "kube" \/ kube_history = <<[n \in Slices |-> Absent]>>)
  /\ Channel!Init /\ (focus = "channel" \/ (~hashed /\ snapshot = [a |-> 0, b |-> 0, m |-> 0]))
  /\ Lock!Init
MCNext ==
  \/ On("etcd") /\ Etcd!Next
     /\ UNCHANGED <<kubeVars, channelVars, lockVars>>
  \/ On("kube") /\ Kube!Next
     /\ UNCHANGED <<etcdVars, channelVars, lockVars>>
  \/ On("channel") /\ Channel!Next
     /\ UNCHANGED <<etcdVars, kubeVars, lockVars>>
  \/ On("lock") /\ Lock!Next
     /\ UNCHANGED <<etcdVars, kubeVars, channelVars>>
\* Each component's own fairness: a condition on a choice of steps of several components asks of
\* the one in focus what a condition on its step would.
MCFairness ==
  /\ \A s \in Servers : /\ WF_moving(On("etcd") /\ Etcd!Keeper(s))
                        /\ WF_moving(On("etcd") /\ keeper[s] # "alive" /\ Etcd!Expire(s))
  /\ WF_moving(\/ On("etcd") /\ Etcd!message
               \/ On("kube") /\ Kube!Events
               \/ On("channel") /\ (\/ Channel!Leave \/ Channel!Changed \/ Channel!ChangedErr \/ Channel!Send
                                    \/ Channel!Sent \/ Channel!replace_state \/ Channel!Report))
  /\ WF_moving(\/ On("etcd") /\ Etcd!relist
               \/ On("kube") /\ (Kube!Started \/ Kube!StartupTimeout)
               \/ On("channel") /\ \E healthy \in SUBSET Channel!Listed(configured) :
                                     Channel!probe_discovered(healthy))
  /\ WF_moving(On("channel") /\ Channel!Project)
  /\ \A c \in ChannelCallers :
       /\ WF_moving(On("channel") /\ Channel!Look(c))
       /\ WF_moving(On("channel") /\ channel_caller[c] = "waiting" /\ Channel!Enable(c))
MCSpec == MCInit /\ [][MCNext]_allVars /\ MCFairness
-----------------------------------------------------------------------------
\* Discovery settles: a stopped server leaves the snapshots, once the cluster is quiet the slices
\* and the channel are those of its last state, and a call that waited for an endpoint goes out
\* when there is one.
DiscoverySettles ==
  /\ Etcd!StoppedDisappear /\ Kube!SlicesConverge
  /\ Channel!ChannelConverges /\ Channel!WaitersWake

\* An endpoint whose last probe failed has no slot in the channel, as connect_discovered_with_status
\* says of failed probes.
FailedStayOut == focus = "channel" => Channel!FailedStayOut
=============================================================================
