----------------------------- MODULE IrohTransport ------------------------------
(***************************************************************************)
(* The QUIC transport of one bus (IrohTransport in agent-mesh-bus bus.rs,  *)
(* with the endpoint and the Hello exchange of agent-mesh-transport): the   *)
(* accept loop and its connection tasks, the readers that wait for a reply *)
(* on the connection a request went out by, the calls of the bus, and the  *)
(* close that ends all of them.                                            *)
(*                                                                         *)
(* QUIC itself is external: a connection has the key its TLS handshake     *)
(* proved.  The certificate a peer shows in its Hello is any certificate   *)
(* it holds a copy of, so not always the one of that key.                  *)
(***************************************************************************)
EXTENDS Integers, Sequences, FiniteSets

CONSTANTS
    Peers,      \* agents of our user, by key
    Strangers,  \* agents of another user
    Revocable,  \* the agents the user may revoke
    Conns,      \* connections that can exist, as numbers
    MaxCalls,   \* bound on the calls of the bus
    MaxHeard    \* bound on the envelopes read off connections

Keys == Peers \cup Strangers
None == 0

VARIABLES
    posture,    \* Posture: "accepting" or "outbound"
    conn,       \* each connection: who dialed, the peer's TLS key, whether QUIC is up
    listener,   \* the task that reads each connection
    loop,       \* the accept loop: "poll", "parked", "woken", "draining", "done"
    permit,     \* the permit notify_one stores in `stop`
    call,       \* the call of the bus under way
    queue,      \* inbound: envelopes read and not yet taken by the bus
    taken,      \* the connection of the Inbound the bus holds
    ending,     \* how far Transport::close is
    owned,      \* the reply readers close has taken out of reply_tasks
    revoked,    \* agents on the revocation log
    \* history
    calls, heard, wrote

irohVars == <<posture, conn, listener, loop, permit, call, queue, taken, ending, owned, revoked,
          calls, heard, wrote>>

Idle == [pc |-> "rest", kind |-> "none", target |-> None, conn |-> None, first |-> FALSE]
NoReader == [phase |-> "none", kind |-> "none", cert |-> None, aborted |-> FALSE]
NoConn == [by |-> "nobody", key |-> None, up |-> FALSE]

\* bind_posture: the endpoint, the resolver, the announcer and the accept loop.
IrohInit ==
    /\ posture \in {"accepting", "outbound"}
    /\ conn = [k \in Conns |-> NoConn]
    /\ listener = [k \in Conns |-> NoReader]
    /\ loop = "poll" /\ permit = FALSE
    /\ call = Idle
    /\ queue = <<>> /\ taken = None
    /\ ending = "no" /\ owned = {}
    /\ revoked = {}
    /\ calls = 0 /\ heard = {} /\ wrote = {}

Unused(k) == conn[k].by = "nobody" /\ \A j \in Conns : j < k => conn[j].by # "nobody"
Spawned(k, kind, phase) ==
    listener' = [listener EXCEPT ![k] =
                   [phase |-> phase, kind |-> kind, cert |-> None, aborted |-> FALSE]]
Listening(k) == listener[k].phase # "none"
ListenerEnds(k) == listener' = [listener EXCEPT ![k] = NoReader]
NextStream(k) == listener' = [listener EXCEPT ![k].phase = "bi", ![k].cert = None]

-------------------------------------------------------------------------------
(* The Hello exchange *)

\* ensure_trustable: an agent of our user that stands against the log.
EnsureTrustable(cert) == cert \in Peers /\ cert \notin revoked

\* A plausible bug: the Hello certificate is taken for the peer.
AnyCertificate(key, cert) == EnsureTrustable(cert)

\* authenticated_iroh_peer: the certificate stands, and is the one of the TLS key.
AuthenticatedPeer(key, cert) == EnsureTrustable(cert) /\ cert = key

-------------------------------------------------------------------------------
(* Readers *)

\* accept_conn: the connection is established, or fails.
ConnectionEstablished(k) ==
    /\ listener[k].phase = "incoming"
    /\ IF conn[k].up THEN NextStream(k) ELSE ListenerEnds(k)
    /\ UNCHANGED <<posture, conn, loop, permit, call, queue, taken, ending, owned, revoked,
                   calls, heard, wrote>>

\* next_envelope: the peer opens a stream, or accept_bi fails for good.
AcceptBi(k) ==
    /\ listener[k].phase = "bi"
    /\ IF conn[k].up THEN listener' = [listener EXCEPT ![k].phase = "hello"] ELSE ListenerEnds(k)
    /\ UNCHANGED <<posture, conn, loop, permit, call, queue, taken, ending, owned, revoked,
                   calls, heard, wrote>>

\* do_handshake as the acceptor: the Hello is judged and answered, by a Hello or a Reject.
HelloRead(k, cert) ==
    /\ listener[k].phase = "hello" /\ conn[k].up
    /\ IF EnsureTrustable(cert)
       THEN listener' = [listener EXCEPT ![k].phase = "answered", ![k].cert = cert]
       ELSE NextStream(k)
    /\ UNCHANGED <<posture, conn, loop, permit, call, queue, taken, ending, owned, revoked,
                   calls, heard, wrote>>

\* Our Hello is written; then the identity is bound and a LiveCheck made of it.
HelloBound(k) ==
    /\ listener[k].phase = "answered"
    /\ IF AuthenticatedPeer(conn[k].key, listener[k].cert)
       THEN listener' = [listener EXCEPT ![k].phase = "read"] ELSE NextStream(k)
    /\ UNCHANGED <<posture, conn, loop, permit, call, queue, taken, ending, owned, revoked,
                   calls, heard, wrote>>

\* HANDSHAKE_TIMEOUT, a lost connection, a stream that ends, or an envelope that does
\* not verify: the next stream of the connection is waited for.
StreamAbandoned(k) ==
    /\ listener[k].phase \in {"hello", "answered", "read"}
    /\ NextStream(k)
    /\ UNCHANGED <<posture, conn, loop, permit, call, queue, taken, ending, owned, revoked,
                   calls, heard, wrote>>

\* A plausible bug: a reply reader keeps listening on the connection it was given.
KeepsListening(k) == NextStream(k)

\* What a reader does after an envelope: the accept side waits for the next stream, a
\* reply reader has what it waited for.
AfterEnvelope(k) == IF listener[k].kind = "reply" THEN ListenerEnds(k) ELSE NextStream(k)

\* recv_envelope, ending in live.admit(); the envelope is queued for the bus.
EnvelopeRead(k) ==
    /\ listener[k].phase = "read"
    /\ listener[k].cert \notin revoked
    /\ Cardinality(heard) < MaxHeard
    /\ queue' = Append(queue, [carrier |-> listener[k].cert, conn |-> k])
    /\ heard' = heard \cup {[carrier |-> listener[k].cert, conn |-> k,
                             nth |-> Cardinality({h \in heard : h.conn = k}) + 1]}
    /\ AfterEnvelope(k)
    /\ UNCHANGED <<posture, conn, loop, permit, call, taken, ending, owned, revoked, calls, wrote>>

\* await_reply_on: the window ends before an envelope came.
WindowEnds(k) ==
    /\ Listening(k) /\ listener[k].kind = "reply"
    /\ ListenerEnds(k)
    /\ UNCHANGED <<posture, conn, loop, permit, call, queue, taken, ending, owned, revoked,
                   calls, heard, wrote>>

\* abort_and_drain: an aborted task ends at the await it stands at.
ReaderAborted(k) ==
    /\ Listening(k) /\ listener[k].aborted
    /\ ListenerEnds(k)
    /\ UNCHANGED <<posture, conn, loop, permit, call, queue, taken, ending, owned, revoked,
                   calls, heard, wrote>>

-------------------------------------------------------------------------------
(* The accept loop *)

\* select, biased: a stop first, then an incoming connection; else it parks.
LoopParks ==
    /\ loop = "poll" /\ ~permit
    /\ loop' = "parked"
    /\ UNCHANGED <<posture, conn, listener, permit, call, queue, taken, ending, owned, revoked,
                   calls, heard, wrote>>

\* A connection comes in.  Outbound-only refuses it; otherwise a task of its own has it.
Incoming(k, key) ==
    /\ loop \in {"poll", "parked"} /\ ~permit
    /\ Unused(k)
    /\ loop' = "poll"
    /\ IF posture = "outbound" THEN UNCHANGED <<conn, listener>>
       ELSE /\ conn' = [conn EXCEPT ![k] = [by |-> "peer", key |-> key, up |-> TRUE]]
            /\ Spawned(k, "accept", "incoming")
    /\ UNCHANGED <<posture, permit, call, queue, taken, ending, owned, revoked, calls, heard, wrote>>

\* Stopped: every connection task is aborted and awaited.
LoopStops ==
    /\ loop = "woken" \/ (loop = "poll" /\ permit)
    /\ loop' = "draining" /\ permit' = FALSE
    /\ listener' = [k \in Conns |->
                     [listener[k] EXCEPT !.aborted = @ \/ listener[k].kind = "accept"]]
    /\ UNCHANGED <<posture, conn, call, queue, taken, ending, owned, revoked, calls, heard, wrote>>

LoopDone ==
    /\ loop = "draining"
    /\ \A k \in Conns : listener[k].kind = "accept" => ~Listening(k)
    /\ loop' = "done"
    /\ UNCHANGED <<posture, conn, listener, permit, call, queue, taken, ending, owned, revoked,
                   calls, heard, wrote>>

-------------------------------------------------------------------------------
(* Calls of the bus *)

\* send_to, send_request_to and open_stream_to, each by fingerprint ("resolve") or by
\* endpoint ("dial").
Call(kind, target, how) ==
    /\ call.pc = "rest" /\ calls < MaxCalls
    /\ calls' = calls + 1
    /\ call' = [pc |-> how, kind |-> kind, target |-> target, conn |-> None, first |-> FALSE]
    /\ UNCHANGED <<posture, conn, listener, loop, permit, queue, taken, ending, owned, revoked,
                   heard, wrote>>

\* reply: on the connection the request came by if its key is the addressee's, else back.
Reply(target) ==
    /\ call.pc = "rest" /\ calls < MaxCalls /\ taken # None
    /\ calls' = calls + 1
    /\ LET k == taken
       IN call' = [pc |-> IF conn[k].key = target THEN "hello" ELSE "back", kind |-> "reply",
                   target |-> target, conn |-> k, first |-> TRUE]
    /\ UNCHANGED <<posture, conn, listener, loop, permit, queue, taken, ending, owned, revoked,
                   heard, wrote>>

\* The first try of a reply falls back; any other failure is returned.
CallFails == call' = IF call.first THEN [call EXCEPT !.pc = "back"] ELSE Idle

\* dial_reply_peer: the source a connection came from is dialed if its key is the
\* addressee's; a failure of that dial falls back to mDNS.
DialBack ==
    /\ call.pc = "back"
    /\ LET route == conn[call.conn]
       IN call' = [call EXCEPT !.pc = IF route.by = "peer" /\ route.key = call.target
                                      THEN "reverse" ELSE "resolve",
                               !.conn = None, !.first = FALSE]
    /\ UNCHANGED <<posture, conn, listener, loop, permit, queue, taken, ending, owned, revoked,
                   calls, heard, wrote>>

\* dial_peer: the announced peer has a key, and it is the one asked for; or it fails.
ResolvePeer(found) ==
    /\ call.pc = "resolve"
    /\ IF found = call.target THEN call' = [call EXCEPT !.pc = "dial"] ELSE CallFails
    /\ UNCHANGED <<posture, conn, listener, loop, permit, queue, taken, ending, owned, revoked,
                   calls, heard, wrote>>

\* Endpoint::dial: TLS proves the key that was dialed.  The endpoint must be open.
Dial(k) ==
    /\ call.pc \in {"dial", "reverse"} /\ ending # "closed" /\ Unused(k)
    /\ conn' = [conn EXCEPT ![k] = [by |-> "us", key |-> call.target, up |-> TRUE]]
    /\ call' = [call EXCEPT !.pc = "hello", !.conn = k]
    /\ UNCHANGED <<posture, listener, loop, permit, queue, taken, ending, owned, revoked, calls,
                   heard, wrote>>

DialFails ==
    /\ call.pc \in {"dial", "reverse"}
    /\ call' = IF call.pc = "reverse" THEN [call EXCEPT !.pc = "resolve"] ELSE Idle
    /\ UNCHANGED <<posture, conn, listener, loop, permit, queue, taken, ending, owned, revoked,
                   calls, heard, wrote>>

\* open_bound_stream: the peer's Hello, bound to its key and to the intended target.
HelloAnswered(cert) ==
    /\ call.pc = "hello" /\ conn[call.conn].up
    /\ IF AuthenticatedPeer(conn[call.conn].key, cert) /\ cert = call.target
       THEN call' = [call EXCEPT !.pc = "bound"] ELSE CallFails
    /\ UNCHANGED <<posture, conn, listener, loop, permit, queue, taken, ending, owned, revoked,
                   calls, heard, wrote>>

\* A Reject, HANDSHAKE_TIMEOUT, or a lost connection.
StreamFails ==
    /\ call.pc \in {"hello", "bound"}
    /\ CallFails
    /\ UNCHANGED <<posture, conn, listener, loop, permit, queue, taken, ending, owned, revoked,
                   calls, heard, wrote>>

\* send_env_on_conn writes the envelope and finishes; open_session_stream hands the
\* stream over instead.
Write ==
    /\ call.pc = "bound" /\ conn[call.conn].up
    /\ wrote' = wrote \cup {[conn |-> call.conn, target |-> call.target, kind |-> call.kind]}
    /\ call' = IF call.kind = "stream" THEN Idle ELSE [call EXCEPT !.pc = "drain"]
    /\ UNCHANGED <<posture, conn, listener, loop, permit, queue, taken, ending, owned, revoked,
                   calls, heard>>

\* send.stopped() returns, whatever became of the connection; a request then leaves a
\* reader on the connection for the reply (await_reply_on).
Drained ==
    /\ call.pc = "drain"
    /\ IF call.kind = "request" THEN Spawned(call.conn, "reply", "bi") ELSE UNCHANGED listener
    /\ call' = Idle
    /\ UNCHANGED <<posture, conn, loop, permit, queue, taken, ending, owned, revoked, calls,
                   heard, wrote>>

\* recv: an envelope whose sender was revoked while it waited is dropped.
RecvEnvelope ==
    /\ queue # <<>> /\ call.pc = "rest"
    /\ queue' = Tail(queue)
    /\ taken' = IF Head(queue).carrier \in revoked THEN taken ELSE Head(queue).conn
    /\ UNCHANGED <<posture, conn, listener, loop, permit, call, ending, owned, revoked, calls,
                   heard, wrote>>

-------------------------------------------------------------------------------
(* Close *)

\* A plausible bug: only a loop that is parked hears of the stop.
StopWaiters ==
    /\ ending = "no"
    /\ ending' = "accept"
    /\ loop' = IF loop = "parked" THEN "woken" ELSE loop
    /\ UNCHANGED <<posture, conn, listener, permit, call, queue, taken, owned, revoked, calls,
                   heard, wrote>>

\* stop.notify_one(): the parked loop is woken, or the permit waits for its next poll.
CloseStops ==
    /\ ending = "no"
    /\ ending' = "accept"
    /\ loop' = IF loop = "parked" THEN "woken" ELSE loop
    /\ permit' = (loop # "parked")
    /\ UNCHANGED <<posture, conn, listener, call, queue, taken, owned, revoked, calls, heard, wrote>>

\* The loop has ended; the reply readers of that moment are taken out and aborted.
CloseReplies ==
    /\ ending = "accept" /\ loop = "done"
    /\ ending' = "replies"
    /\ owned' = {k \in Conns : Listening(k)}
    /\ listener' = [k \in Conns |-> [listener[k] EXCEPT !.aborted = @ \/ Listening(k)]]
    /\ UNCHANGED <<posture, conn, loop, permit, call, queue, taken, revoked, calls, heard, wrote>>

\* endpoint.close(): every connection ends, one a late reader holds too.
CloseEndpoint ==
    /\ ending = "replies" /\ \A k \in owned : ~Listening(k)
    /\ ending' = "closed"
    /\ conn' = [k \in Conns |-> [conn[k] EXCEPT !.up = FALSE]]
    /\ UNCHANGED <<posture, listener, loop, permit, call, queue, taken, owned, revoked, calls,
                   heard, wrote>>

\* The peer closes a connection, or the path is lost.
PeerCloses(k) ==
    /\ conn[k].up
    /\ conn' = [conn EXCEPT ![k].up = FALSE]
    /\ UNCHANGED <<posture, listener, loop, permit, call, queue, taken, ending, owned, revoked,
                   calls, heard, wrote>>

\* The user revokes an agent.
Revoke(p) ==
    /\ revoked' = revoked \cup {p}
    /\ UNCHANGED <<posture, conn, listener, loop, permit, call, queue, taken, ending, owned,
                   calls, heard, wrote>>

-------------------------------------------------------------------------------
Calling ==
    \/ DialBack \/ DialFails \/ StreamFails \/ Write \/ Drained
    \/ \E p \in Keys \cup {None} : ResolvePeer(p)
    \/ \E c \in Keys : HelloAnswered(c)

ListenerRuns(k) ==
    \/ ConnectionEstablished(k) \/ HelloBound(k) \/ (~conn[k].up /\ AcceptBi(k))

IrohNext ==
    \/ Calling \/ RecvEnvelope
    \/ \E kind \in {"send", "request", "stream"}, p \in Peers, how \in {"resolve", "dial"} :
          Call(kind, p, how)
    \/ \E p \in Peers : Reply(p)
    \/ \E p \in Revocable : Revoke(p)
    \/ \E k \in Conns : \/ ConnectionEstablished(k) \/ AcceptBi(k) \/ HelloBound(k)
                        \/ StreamAbandoned(k) \/ EnvelopeRead(k) \/ WindowEnds(k)
                        \/ ReaderAborted(k) \/ PeerCloses(k) \/ Dial(k)
                        \/ \E p \in Keys : HelloRead(k, p) \/ Incoming(k, p)
    \/ LoopParks \/ LoopStops \/ LoopDone
    \/ CloseStops \/ CloseReplies \/ CloseEndpoint

\* The executor polls every task, timers fire (a handshake and a reply window end), and an
\* aborted task ends.  Nothing is asked of the peers or of the callers.
IrohFairness ==
    /\ WF_irohVars((LoopParks \/ LoopStops \/ LoopDone))
    /\ WF_irohVars((CloseReplies \/ CloseEndpoint))
    /\ \A k \in Conns :
          /\ WF_irohVars((ListenerRuns(k) \/ StreamAbandoned(k)))
          /\ WF_irohVars((ReaderAborted(k) \/ WindowEnds(k)))

IrohSpec == IrohInit /\ [][IrohNext]_irohVars /\ IrohFairness

-------------------------------------------------------------------------------
(* Properties *)

\* Carrier evidence, whatever certificate a peer shows: an envelope reaches the bus as
\* carried by the agent whose key the connection proved, what the bus writes goes to the
\* agent it is for, and an outbound-only transport hears nothing but one answer on a
\* connection it sent a request over.
CarriersAreKeys ==
    /\ \A h \in heard : h.carrier = conn[h.conn].key
    /\ \A w \in wrote : w.target = conn[w.conn].key
    /\ posture = "outbound" =>
         \A h \in heard :
            /\ \E w \in wrote : w.conn = h.conn /\ w.kind = "request"
            /\ h.nth = 1

\* A close comes to its end, however it meets the accept loop and a request under way, and
\* leaves no task on a connection.
CloseEnds ==
    (ending # "no") ~> (ending = "closed" /\ \A k \in Conns : ~Listening(k))

===============================================================================
