----------------------------- MODULE McpServer -----------------------------
(***************************************************************************)
(* McpServer of mcp/src/lib.rs: sessions, the HTTP handlers that create,   *)
(* use and end them, and the event streams that follow them.               *)
(*                                                                         *)
(* Handlers run on several workers.  A session is looked up under the map  *)
(* lock and used after it: registering a request's abort handle,           *)
(* subscribing a stream, and publishing an event (take an id, store it,    *)
(* send it) are steps of their own.                                        *)
(*                                                                         *)
(* A session's broadcast channel is the sequence of everything sent; a     *)
(* receiver is a position in it and lags once more than ChannelCapacity    *)
(* items are unread.  last_access is abstracted to "idle for the timeout". *)
(***************************************************************************)
EXTENDS Naturals, Sequences, SequencesExt, FiniteSets

CONSTANTS
  Sessions,         \* ids Uuid::new_v4 may return
  Posts,            \* POST requests that carry a JSON-RPC id
  Keys,             \* their JSON-RPC ids, as request_key renders them
  Streams,          \* GET requests
  ReplayCapacity,   \* event_replay_capacity
  ChannelCapacity   \* of the broadcast channel, replay_capacity.max(16) in the code

VARIABLES
  stateful,   \* of the configuration
  server,     \* what drain_on_signal is doing
  live,       \* the keys of Sessions.values
  session,    \* every Session an Arc may point to
  post,       \* one record per POST
  stream,     \* one record per GET
  overlapped  \* history: sessions in which two publish calls overlapped

vars == <<stateful, server, live, session, post, stream, overlapped>>

End == 0  \* SessionEvent::Terminated; events have positive ids

NewSession ==
  [idle |-> FALSE, next_event_id |-> 1, events |-> <<>>, sent |-> <<>>,
   requests |-> [k \in Keys |-> {}], terminated |-> FALSE, active_streams |-> 0]

NewPost ==
  [pc |-> "idle", session |-> {}, key |-> {}, legacy |-> FALSE, sse |-> FALSE,
   aborted |-> FALSE, late |-> FALSE, shadowed |-> FALSE, id |-> 0]

NewStream ==
  [pc |-> "idle", session |-> {}, last_id |-> 0, replay |-> <<>>, position |-> 0, late |-> FALSE]

\* A finished request: nothing of it is read again.
Done == [NewPost EXCEPT !.pc = "done"]
Closed == [NewStream EXCEPT !.pc = "closed"]

Of(x) == CHOOSE s \in x.session : TRUE

\* Posts between fetch_add and send in publish.
Publishing(s) == {p \in Posts : post[p].pc \in {"numbered", "stored"} /\ post[p].session = {s}}

TypeOK ==
  /\ stateful \in BOOLEAN
  /\ server \in {"serving", "draining", "stopped"}
  /\ live \subseteq Sessions
  /\ overlapped \subseteq Sessions
  /\ \A s \in Sessions :
       /\ session[s].next_event_id \in 1..(Cardinality(Posts) + 1)
       /\ Len(session[s].events) <= ReplayCapacity
       /\ session[s].active_streams = Cardinality({g \in Streams : stream[g].pc = "open" /\ stream[g].session = {s}})
       /\ session[s].requests \in [Keys -> {{}} \union {{p} : p \in Posts}]
  /\ \A p \in Posts :
       post[p].pc \in {"idle", "found", "running", "answered", "numbered", "stored", "done", "gone"}
  /\ \A g \in Streams : stream[g].pc \in {"idle", "found", "subscribed", "open", "closed"}

Init ==
  /\ stateful \in BOOLEAN
  /\ server = "serving"
  /\ live = {}
  /\ session = [s \in Sessions |-> NewSession]
  /\ post = [p \in Posts |-> NewPost]
  /\ stream = [g \in Streams |-> NewStream]
  /\ overlapped = {}

----------------------------------------------------------------------------
(* Session *)

touch(ss, s) == [ss EXCEPT ![s].idle = FALSE]

is_expired(s) ==
  \/ session[s].terminated
  \/ /\ session[s].active_streams = 0
     /\ \A k \in Keys : session[s].requests[k] = {}
     /\ session[s].idle

\* Fault: the end of the session is not announced to its streams.
terminate_silent(ss, S) == [s \in Sessions |-> [ss[s] EXCEPT !.terminated = @ \/ s \in S]]

terminate(ss, S) ==
  [s \in Sessions |->
     IF s \in S /\ ~ss[s].terminated
     THEN [ss[s] EXCEPT !.terminated = TRUE, !.sent = Append(@, End)]
     ELSE ss[s]]

\* The abort handles terminate fires.
Aborts(S) == {p \in Posts : \E s \in S, k \in Keys : ~session[s].terminated /\ p \in session[s].requests[k]}

abort(pp, P) == [p \in Posts |-> [pp[p] EXCEPT !.aborted = @ \/ p \in P]]

Expired == {s \in live : is_expired(s)}

remove_expired_sessions ==
  /\ live' = live \ Expired
  /\ session' = terminate(session, Expired)
  /\ post' = abort(post, Aborts(Expired))

\* The idle timeout passes without an access.  It is not read while requests
\* or streams are open, and both restart it when they end.
IdleTimeout(s) ==
  /\ s \in live /\ ~session[s].idle
  /\ session[s].active_streams = 0 /\ \A k \in Keys : session[s].requests[k] = {}
  /\ session' = [session EXCEPT ![s].idle = TRUE]
  /\ UNCHANGED <<stateful, server, live, post, stream, overlapped>>

----------------------------------------------------------------------------
(* POST *)

\* A session id no session has had.
Fresh == {s \in Sessions : s \notin live /\ ~session[s].terminated}

create_session(s) ==
  /\ s \in Fresh
  /\ live' = (live \ Expired) \union {s}
  /\ session' = terminate(session, Expired)

request_session(s) ==
  /\ s \in live \ Expired
  /\ live' = live \ Expired
  /\ session' = touch(terminate(session, Expired), s)

\* What the handlers read of a request: one that passes every check for each
\* Accept header, and one that fails each check.
Good == [origin |-> "none", json |-> TRUE, body |-> "request", accept |-> "json"]
HttpRequests ==
  {[Good EXCEPT !.accept = a] : a \in {"none", "json", "text/event-stream", "text/plain"}}
    \union {[Good EXCEPT !.origin = o] : o \in {"allowed", "foreign"}}
    \union {[Good EXCEPT !.json = FALSE]}
    \union {[Good EXCEPT !.body = b] : b \in {"malformed", "not JSON-RPC 2.0"}}

reject_origin(h) == h.origin = "foreign"                            \* 403
has_json_content_type(h) == h.json                                  \* or 415
parse_json_rpc(h) == h.body = "request"                             \* or 400
accepts_json(h) == h.accept \in {"none", "json"}
accepts_sse(h) == h.accept = "text/event-stream"                    \* or 406

Readable(h) == ~reject_origin(h) /\ has_json_content_type(h) /\ parse_json_rpc(h)

\* The checks that answer before a session is looked up.
PostRefused(p, h) ==
  /\ server = "serving" /\ post[p].pc = "idle" /\ ~Readable(h)
  /\ post' = [post EXCEPT ![p] = Done]
  /\ UNCHANGED <<stateful, server, live, session, stream, overlapped>>

\* 400 or 404: the session header is missing or names no live session.
PostUnknown(p, h) ==
  /\ server = "serving" /\ post[p].pc = "idle" /\ Readable(h)
  /\ live' = live \ Expired
  /\ session' = terminate(session, Expired)
  /\ post' = abort([post EXCEPT ![p] = Done], Aborts(Expired))
  /\ UNCHANGED <<stateful, server, stream, overlapped>>

Looked(p, s, k, legacy, sse) ==
  post' = abort([post EXCEPT ![p] = [@ EXCEPT !.pc = "found", !.session = s, !.key = {k},
                                              !.legacy = legacy, !.sse = sse]],
                Aborts(Expired))

http_post(p, k, h) ==
  /\ server = "serving" /\ post[p].pc = "idle" /\ Readable(h)
  /\ \/ /\ ~stateful
        /\ Looked(p, {}, k, FALSE, ~accepts_json(h) /\ accepts_sse(h))
        /\ UNCHANGED <<live, session>>
     \/ /\ stateful
        /\ \E s \in Sessions :
             /\ create_session(s) \/ request_session(s)
             /\ Looked(p, {s}, k, FALSE, ~accepts_json(h) /\ accepts_sse(h))
  /\ UNCHANGED <<stateful, server, stream, overlapped>>

legacy_message_post(p, k, h) ==
  /\ server = "serving" /\ post[p].pc = "idle" /\ Readable(h)
  /\ \E s \in Sessions : request_session(s) /\ Looked(p, {s}, k, TRUE, TRUE)
  /\ UNCHANGED <<stateful, server, stream, overlapped>>

Same(p, q) == q # p /\ post[q].pc = "running" /\ post[q].session = post[p].session /\ post[q].key = post[p].key

\* Insert the abort handle and start dispatching.  A handle of the same id
\* is replaced.
Register(p) ==
  /\ post[p].pc = "found"
  /\ IF post[p].session = {}
     THEN UNCHANGED session
     ELSE session' = [session EXCEPT ![Of(post[p])].requests =
                        [k \in Keys |-> IF post[p].key = {k} THEN {p} ELSE @[k]]]
  /\ post' = [q \in Posts |->
                IF q = p
                THEN [post[p] EXCEPT !.pc = "running",
                        !.late = post[p].session # {} /\ session[Of(post[p])].terminated]
                ELSE [post[q] EXCEPT !.shadowed = @ \/ (post[p].session # {} /\ Same(p, q))]]
  /\ UNCHANGED <<stateful, server, live, stream, overlapped>>

\* A JSON answer (or 406) ends the request, an SSE one is published first.
Answered(r) == IF r.sse /\ r.session # {} THEN [r EXCEPT !.pc = "answered"] ELSE Done

\* Fault: the abort handle stays registered when the request is answered.
AnswerKeeping(p) ==
  /\ post[p].pc = "running"
  /\ session' = IF post[p].session = {} THEN session ELSE touch(session, Of(post[p]))
  /\ post' = [post EXCEPT ![p] = Answered(post[p])]
  /\ UNCHANGED <<stateful, server, live, stream, overlapped>>

\* dispatch returned, was aborted or timed out: the entry of this id is
\* removed, whoever it belongs to.
Answer(p) ==
  /\ post[p].pc = "running"
  /\ session' = IF post[p].session = {} THEN session
                ELSE touch([session EXCEPT ![Of(post[p])].requests =
                              [k \in Keys |-> IF post[p].key = {k} THEN {} ELSE @[k]]], Of(post[p]))
  /\ post' = [q \in Posts |->
                IF q = p
                THEN Answered(post[p])
                ELSE [post[q] EXCEPT !.shadowed = @ \/ (post[p].session # {} /\ Same(p, q))]]
  /\ UNCHANGED <<stateful, server, live, stream, overlapped>>

\* The client of a streamable POST goes away: the handler is dropped where it
\* waits, before the entry is removed.  Legacy requests run in a spawned task.
Disconnect(p) ==
  /\ post[p].pc = "running" /\ ~post[p].legacy
  /\ post' = [post EXCEPT ![p].pc = "gone"]
  /\ UNCHANGED <<stateful, server, live, session, stream, overlapped>>

\* publish: fetch_add, then the replay buffer, then the channel.
TakeId(p) ==
  /\ post[p].pc = "answered"
  /\ LET s == Of(post[p]) IN
       /\ post' = [post EXCEPT ![p].pc = "numbered", ![p].id = session[s].next_event_id]
       /\ session' = [session EXCEPT ![s].next_event_id = @ + 1]
       /\ overlapped' = IF Publishing(s) = {} THEN overlapped ELSE overlapped \union {s}
  /\ UNCHANGED <<stateful, server, live, stream>>

Store(p) ==
  /\ post[p].pc = "numbered"
  /\ LET full(events) == Len(events) = ReplayCapacity IN
     session' = [session EXCEPT ![Of(post[p])].events =
                   Append(IF full(@) THEN Tail(@) ELSE @, post[p].id)]
  /\ post' = [post EXCEPT ![p].pc = "stored"]
  /\ UNCHANGED <<stateful, server, live, stream, overlapped>>

Send(p) ==
  /\ post[p].pc = "stored"
  /\ session' = [session EXCEPT ![Of(post[p])].sent = Append(@, post[p].id)]
  /\ post' = [post EXCEPT ![p] = Done]
  /\ UNCHANGED <<stateful, server, live, stream, overlapped>>

\* notifications/cancelled, on either transport.
cancel(s, k) ==
  /\ server = "serving"
  /\ request_session(s)
  /\ session[s].requests[k] # {}
  /\ post' = abort(post, Aborts(Expired) \union session[s].requests[k])
  /\ UNCHANGED <<stateful, server, stream, overlapped>>

----------------------------------------------------------------------------
(* GET and DELETE *)

\* The event id to start after: Last-Event-ID, or the last id handed out.
http_get(g, h) ==
  /\ server = "serving" /\ stream[g].pc = "idle" /\ ~reject_origin(h) /\ accepts_sse(h) /\ stateful
  /\ \E s \in Sessions, after \in 0..Cardinality(Posts) :
       /\ request_session(s)
       /\ after <= session[s].next_event_id - 1
       /\ stream' = [stream EXCEPT ![g] = [@ EXCEPT !.pc = "found", !.session = {s}, !.last_id = after]]
  /\ post' = abort(post, Aborts(Expired))
  /\ UNCHANGED <<stateful, server, overlapped>>

legacy_sse_get(g, h) ==
  /\ server = "serving" /\ stream[g].pc = "idle" /\ ~reject_origin(h) /\ accepts_sse(h)
  /\ \E s \in Sessions :
       /\ create_session(s)
       /\ stream' = [stream EXCEPT ![g] = [@ EXCEPT !.pc = "found", !.session = {s}]]
  /\ post' = abort(post, Aborts(Expired))
  /\ UNCHANGED <<stateful, server, overlapped>>

\* A GET that opens nothing: 403, 406 and 405 answer at once, 400 and 404
\* after a look at the sessions.
GetRefused(g) ==
  /\ server = "serving" /\ stream[g].pc = "idle"
  /\ stream' = [stream EXCEPT ![g] = Closed]
  /\ \/ UNCHANGED <<live, session, post>>
     \/ remove_expired_sessions
  /\ UNCHANGED <<stateful, server, overlapped>>

After(events, id) == SelectSeq(events, LAMBDA e : e > id)

subscribe(g) ==
  /\ stream[g].pc = "found"
  /\ LET s == session[Of(stream[g])] IN
       stream' = [stream EXCEPT ![g] = [@ EXCEPT !.pc = "subscribed", !.position = Len(s.sent),
                                                 !.late = s.terminated \/ server # "serving"]]
  /\ UNCHANGED <<stateful, server, live, session, post, overlapped>>

\* event_stream_after once it is subscribed: copy what the client has missed.
event_stream_after(g) ==
  /\ stream[g].pc = "subscribed"
  /\ LET s == Of(stream[g]) IN
       /\ stream' = [stream EXCEPT ![g].pc = "open",
                                   ![g].replay = After(session[s].events, stream[g].last_id)]
       /\ session' = [session EXCEPT ![s].active_streams = @ + 1]
  /\ UNCHANGED <<stateful, server, live, post, overlapped>>

\* Fault: the stream does not own its ActiveStream, and nothing counts it down.
CloseCounted(g) ==
  /\ stream' = [stream EXCEPT ![g] = Closed]
  /\ session' = touch(session, Of(stream[g]))
  /\ UNCHANGED <<stateful, server, live, post, overlapped>>

\* Dropping the response body drops ActiveStream.
Close(g) ==
  /\ stream' = [stream EXCEPT ![g] = Closed]
  /\ session' = touch([session EXCEPT ![Of(stream[g])].active_streams = @ - 1], Of(stream[g]))
  /\ UNCHANGED <<stateful, server, live, post, overlapped>>

Hangup(g) == stream[g].pc = "open" /\ Close(g)

Lagging(g) == Len(session[Of(stream[g])].sent) - stream[g].position > ChannelCapacity

\* The next item the receiver would return.
Received(g) == session[Of(stream[g])].sent[stream[g].position + 1]

\* Fault: a lagging receiver goes on with what the channel still holds.
LaggedForgetful(g) ==
  /\ stream[g].pc = "open" /\ stream[g].replay = <<>> /\ Lagging(g)
  /\ stream' = [stream EXCEPT ![g].position = Len(session[Of(stream[g])].sent) - ChannelCapacity]
  /\ UNCHANGED <<stateful, server, live, session, post, overlapped>>

Lagged(g) ==
  /\ stream[g].pc = "open" /\ stream[g].replay = <<>> /\ Lagging(g)
  /\ LET s == session[Of(stream[g])] IN
       stream' = [stream EXCEPT ![g].position = Len(s.sent) - ChannelCapacity,
                                ![g].replay = After(s.events, stream[g].last_id)]
  /\ UNCHANGED <<stateful, server, live, session, post, overlapped>>

Replay(g) ==
  /\ stream[g].pc = "open" /\ stream[g].replay # <<>>
  /\ stream' = [stream EXCEPT ![g].replay = Tail(@), ![g].last_id = Head(stream[g].replay)]
  /\ UNCHANGED <<stateful, server, live, session, post, overlapped>>

Recv(g) ==
  /\ stream[g].pc = "open" /\ stream[g].replay = <<>> /\ ~Lagging(g)
  /\ stream[g].position < Len(session[Of(stream[g])].sent)
  /\ \/ Received(g) = End /\ Close(g)
     \/ /\ Received(g) # End
        /\ stream' = [stream EXCEPT ![g].position = @ + 1,
                                    ![g].last_id = IF Received(g) > @ THEN Received(g) ELSE @]
        /\ UNCHANGED <<stateful, server, live, session, post, overlapped>>

\* A DELETE or a notification whose session is unknown (400, 404).
SessionUnknown ==
  /\ server = "serving" /\ Expired # {}
  /\ remove_expired_sessions
  /\ UNCHANGED <<stateful, server, stream, overlapped>>

http_delete(s) ==
  /\ server = "serving" /\ stateful /\ s \in live
  /\ live' = live \ (Expired \union {s})
  /\ session' = terminate(session, Expired \union {s})
  /\ post' = abort(post, Aborts(Expired \union {s}))
  /\ UNCHANGED <<stateful, server, stream, overlapped>>

----------------------------------------------------------------------------
(* Shutdown *)

close_event_streams ==
  /\ server = "serving"
  /\ server' = "draining"
  /\ session' = [s \in Sessions |-> IF s \in live THEN [session[s] EXCEPT !.sent = Append(@, End)] ELSE session[s]]
  /\ UNCHANGED <<stateful, live, post, stream, overlapped>>

\* The transport stops once it has drained, or at its shutdown timeout, which
\* drops the handlers and streams that are left.  Then every session is
\* terminated.
terminate_sessions ==
  /\ server = "draining"
  /\ server' = "stopped"
  /\ session' = [s \in Sessions |-> [terminate(session, live)[s] EXCEPT !.active_streams = 0]]
  /\ post' = abort([p \in Posts |-> IF post[p].pc \in {"idle", "done"} THEN post[p]
                                    ELSE [post[p] EXCEPT !.pc = "gone"]], Aborts(live))
  /\ stream' = [g \in Streams |-> Closed]
  /\ live' = {}
  /\ UNCHANGED <<stateful, overlapped>>

Next ==
  \/ \E p \in Posts :
       \/ Register(p) \/ Answer(p) \/ Disconnect(p) \/ TakeId(p) \/ Store(p) \/ Send(p)
       \/ \E h \in HttpRequests :
            \/ PostRefused(p, h) \/ PostUnknown(p, h)
            \/ \E k \in Keys : legacy_message_post(p, k, h) \/ http_post(p, k, h)
  \/ \E g \in Streams :
       \/ GetRefused(g) \/ subscribe(g) \/ event_stream_after(g)
       \/ \E h \in HttpRequests : http_get(g, h) \/ legacy_sse_get(g, h)
       \/ Hangup(g) \/ Lagged(g) \/ Replay(g) \/ Recv(g)
  \/ \E s \in Sessions : IdleTimeout(s) \/ http_delete(s) \/ \E k \in Keys : cancel(s, k)
  \/ SessionUnknown \/ close_event_streams \/ terminate_sessions

Spec == Init /\ [][Next]_vars

----------------------------------------------------------------------------
(* Properties *)

\* A stream goes past an event id only when the replay buffer has already
\* dropped that event: subscribing before copying the buffer, skipping by id
\* and refilling after a lag leave no other gap, and nothing is delivered
\* out of order.  Two publish calls of one session that overlap void it: the
\* id is taken before the buffer's lock.
NoGap ==
  \A g \in Streams :
    /\ stream[g].pc = "open" /\ stream'[g].pc = "open" /\ Of(stream[g]) \notin overlapped
    /\ stream'[g].last_id # stream[g].last_id
    => /\ stream'[g].last_id > stream[g].last_id
       /\ \A id \in (stream[g].last_id + 1)..(stream'[g].last_id - 1) :
            ~Contains(session[Of(stream[g])].events, id)
GapFree == [][NoGap]_vars

\* The announcement of the end is still readable by the stream.
EndPending(g) ==
  LET s == session[Of(stream[g])] IN
  \E i \in (stream[g].position + 1)..Len(s.sent) : s.sent[i] = End /\ i > Len(s.sent) - ChannelCapacity

\* So many events followed the end that the channel has dropped it.
CrowdedOut(g) ==
  LET s == session[Of(stream[g])] IN
  \E i \in 1..Len(s.sent) : s.sent[i] = End /\ i <= Len(s.sent) - ChannelCapacity

\* Ending a session reaches everything that uses it: a request registered
\* before the end has been aborted, and a stream subscribed before it can
\* still read the end.  What was looked up before the end and registered or
\* subscribed after it is missed, as is a request whose handle another one
\* with its id replaced, and a stream whose channel overflowed since.
TerminationReaches ==
  /\ \A p \in Posts : post[p].pc = "running" /\ post[p].session # {} /\ session[Of(post[p])].terminated
                      => post[p].aborted \/ post[p].late \/ post[p].shadowed
  /\ \A g \in Streams : stream[g].pc = "open" /\ session[Of(stream[g])].terminated
                        => EndPending(g) \/ CrowdedOut(g) \/ stream[g].late

\* The request table is what cancellation and expiry need: a running request
\* is found under its id (unless another request reused the id), and an
\* entry belongs to a request that still runs or whose client left, so only
\* the latter keeps a session from expiring.
CancelReaches ==
  /\ \A p \in Posts : post[p].pc = "running" /\ post[p].session # {} /\ ~post[p].shadowed
                      => \A k \in post[p].key : session[Of(post[p])].requests[k] = {p}
  /\ \A s \in Sessions, k \in Keys : \A p \in session[s].requests[k] : post[p].pc \in {"running", "gone"}
=============================================================================
