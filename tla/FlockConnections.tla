----------------------------- MODULE FlockConnections ----------------------------
(***************************************************************************)
(* The flock server's sockets (agent-mesh-flock-server serve.rs): two      *)
(* accept loops, one thread per connection with the session, challenge and *)
(* proof it carries, file requests, a failure that ends the service, and   *)
(* stop.  Invitations, offered on the owner's socket only, leave all of    *)
(* this as it is.                                                          *)
(*                                                                         *)
(* What a request does to the server is in FlockServer and FlockBoard; a   *)
(* stream's frames are in FlockStream.  Here a session is only live or     *)
(* ended, and a request runs under the server's lock as one step.          *)
(***************************************************************************)
EXTENDS Integers, FiniteSets

CONSTANTS
    Connections,  \* connections that can come in
    Sessions,     \* session keys
    MaxRequests   \* bound on the requests of one connection that set it up

Classes == {"owner", "remote"}
NoSession == 0

ASSUME ConnAssumption == NoSession \notin Sessions

VARIABLES
    link,       \* each connection: where its thread is and what it carries
    here,       \* connections whose peer has not gone
    severed,    \* connections the server has shut down
    socks,      \* Shared.socks: the duplicates kept to cut a connection
    session,    \* each session, as the server knows it
    loop,       \* the accept loop of each class: "accepting" or "ended"
    failure,    \* Signal's gate: whether a failure is recorded
    stopping,   \* how far Serving::stop or Serving::wait is
    requests    \* history variable: requests of each connection so far

connVars == <<link, here, severed, socks, session, loop, failure, stopping, requests>>

NoLink == [pc |-> "none", bound |-> NoSession, challenge |-> FALSE, proven |-> NoSession]

ConnInit ==
    /\ link = [c \in Connections |-> NoLink]
    /\ here = {} /\ severed = {} /\ socks = {}
    /\ session = [s \in Sessions |-> "unknown"]
    /\ loop = [k \in Classes |-> "accepting"]
    /\ failure = FALSE /\ stopping = "no"
    /\ requests = [c \in Connections |-> 0]

Serving(c) == link[c].pc = "serving"
Finished(c) == link[c].pc \in {"none", "done"}

-------------------------------------------------------------------------------
(* accept_loop *)

\* A connection is registered, counted and given its thread.
Accept(c, class) ==
    /\ loop[class] = "accepting" /\ link[c].pc = "none"
    /\ stopping = "no" /\ ~failure
    /\ link' = [link EXCEPT ![c] = [NoLink EXCEPT !.pc = "serving"]]
    /\ here' = here \cup {c} /\ socks' = socks \cup {c}
    /\ UNCHANGED <<severed, session, loop, failure, stopping, requests>>

\* The connection that stop and fail make to wake it: the loop sees the flag and ends.
\* One that came in before it is taken for the same purpose.
LoopEnds(class) ==
    /\ loop[class] = "accepting"
    /\ failure \/ stopping # "no"
    /\ loop' = [loop EXCEPT ![class] = "ended"]
    /\ UNCHANGED <<link, here, severed, socks, session, failure, stopping, requests>>

-------------------------------------------------------------------------------
(* serve_connection *)

\* A request arrives: the thread is at read_msg and the peer is there.
Request(c) ==
    /\ Serving(c) /\ c \in here /\ c \notin severed
    /\ requests[c] < MaxRequests
    /\ requests' = [requests EXCEPT ![c] = @ + 1]

\* EnrollBegin and EnrollFinish: a connection carries one session.
Enroll(c, s) ==
    /\ Request(c) /\ ~failure
    /\ link[c].bound = NoSession /\ session[s] = "unknown"
    /\ session' = [session EXCEPT ![s] = "live"]
    /\ link' = [link EXCEPT ![c].bound = s]
    /\ UNCHANGED <<here, severed, socks, loop, failure, stopping>>

\* WatchBegin: a challenge with a fresh nonce replaces the one before.
WatchBegin(c) ==
    /\ Request(c)
    /\ link' = [link EXCEPT ![c].challenge = TRUE]
    /\ UNCHANGED <<here, severed, socks, session, loop, failure, stopping>>

\* authorize_stream: the proof answers this connection's challenge, and its session is live.
Authorized(c, s) == link[c].challenge /\ session[s] = "live"

\* Watch: the challenge is spent whatever happens, and the connection ends with the stream.
Watch(c, s) ==
    /\ Request(c)
    /\ link' = [link EXCEPT ![c].challenge = FALSE,
                            ![c].pc = IF Authorized(c, s) THEN "stream" ELSE "over"]
    /\ UNCHANGED <<here, severed, socks, session, loop, failure, stopping>>

\* Prove: the challenge is spent whatever happens.
Prove(c, s) ==
    /\ Request(c)
    /\ link' = [link EXCEPT ![c].challenge = FALSE,
                            ![c].proven = IF Authorized(c, s) THEN s ELSE @]
    /\ UNCHANGED <<here, severed, socks, session, loop, failure, stopping>>

\* FileStat and File: the proven session may still read, asked under the lock ...
FileAsked(c) ==
    /\ Request(c) /\ link[c].proven # NoSession
    /\ session[link[c].proven] = "live"
    /\ link' = [link EXCEPT ![c].pc = "file"]
    /\ UNCHANGED <<here, severed, socks, session, loop, failure, stopping>>

\* ... and the file read and sent outside of it.
FileSent(c) ==
    /\ link[c].pc = "file"
    /\ link' = [link EXCEPT ![c].pc = "serving"]
    /\ UNCHANGED <<here, severed, socks, session, loop, failure, stopping, requests>>

\* End: the session is closed and the connection is over.
End(c) ==
    /\ Request(c)
    /\ session' = IF link[c].bound = NoSession \/ failure THEN session
                  ELSE [session EXCEPT ![link[c].bound] = "ended"]
    /\ link' = [link EXCEPT ![c].pc = "over", ![c].bound = NoSession]
    /\ UNCHANGED <<here, severed, socks, loop, failure, stopping>>

\* A request meets an I/O error, or a server that has had one: the failure is recorded and
\* the accept loops are woken; the peer gets the error.
Fatal(c) ==
    /\ Request(c) /\ ~failure
    /\ failure' = TRUE
    /\ UNCHANGED <<link, here, severed, socks, session, loop, stopping>>

\* read_msg or write_msg finds the peer gone or the connection cut; a stream ends so too,
\* or for its own reasons.
Over(c) ==
    /\ link[c].pc \in {"serving", "stream"}
    /\ link[c].pc = "stream" \/ c \notin here \/ c \in severed
    /\ link' = [link EXCEPT ![c].pc = "over"]
    /\ UNCHANGED <<here, severed, socks, session, loop, failure, stopping, requests>>

\* A plausible bug: only a connection whose peer went away ends its session.
LeaveUnlessLost(c) ==
    /\ link[c].pc = "over"
    /\ session' = IF link[c].bound = NoSession \/ failure \/ c \in here THEN session
                  ELSE [session EXCEPT ![link[c].bound] = "ended"]
    /\ link' = [link EXCEPT ![c].pc = "leaving"]
    /\ UNCHANGED <<here, severed, socks, loop, failure, stopping, requests>>

\* After the loop, however it ended: a session still bound is lost.
Leave(c) ==
    /\ link[c].pc = "over"
    /\ session' = IF link[c].bound = NoSession \/ failure THEN session
                  ELSE [session EXCEPT ![link[c].bound] = "ended"]
    /\ link' = [link EXCEPT ![c].pc = "leaving"]
    /\ UNCHANGED <<here, severed, socks, loop, failure, stopping, requests>>

\* Ending it fails the server, and so the service.
LeaveFatal(c) ==
    /\ link[c].pc = "over" /\ link[c].bound # NoSession /\ ~failure
    /\ failure' = TRUE
    /\ link' = [link EXCEPT ![c].pc = "leaving"]
    /\ UNCHANGED <<here, severed, socks, session, loop, stopping, requests>>

\* connection: the socket is shut for every holder and the duplicate dropped.
Close(c) ==
    /\ link[c].pc = "leaving"
    /\ link' = [link EXCEPT ![c].pc = "done"]
    /\ socks' = socks \ {c}
    /\ UNCHANGED <<here, severed, session, loop, failure, stopping, requests>>

-------------------------------------------------------------------------------
(* stop and wait *)

\* stop sets the flag and joins the loops; wait only joins them.
Stop ==
    /\ stopping = "no"
    /\ stopping' = "loops"
    /\ UNCHANGED <<link, here, severed, socks, session, loop, failure, requests>>

\* A plausible bug: the handles of the threads are joined and not cut.
JoinUncut ==
    /\ stopping = "loops" \/ (failure /\ stopping = "no")
    /\ \A k \in Classes : loop[k] = "ended"
    /\ stopping' = "join"
    /\ UNCHANGED <<link, here, severed, socks, session, loop, failure, requests>>

\* The loops have ended and the journal is stopped; end_connections shuts every socket of
\* the registry down ...
EndConnections ==
    /\ stopping = "loops" \/ (failure /\ stopping = "no")
    /\ \A k \in Classes : loop[k] = "ended"
    /\ severed' = severed \cup socks
    /\ stopping' = "join"
    /\ UNCHANGED <<link, here, socks, session, loop, failure, requests>>

\* ... and joins every thread.
Joined ==
    /\ stopping = "join" /\ \A c \in Connections : Finished(c)
    /\ stopping' = "done"
    /\ UNCHANGED <<link, here, severed, socks, session, loop, failure, requests>>

\* The peer goes away, or the session ends by a replacement or a roster change.
PeerGone(c) ==
    /\ c \in here
    /\ here' = here \ {c}
    /\ UNCHANGED <<link, severed, socks, session, loop, failure, stopping, requests>>

SessionEnds(s) ==
    /\ session[s] = "live" /\ ~failure
    /\ session' = [session EXCEPT ![s] = "ended"]
    /\ UNCHANGED <<link, here, severed, socks, loop, failure, stopping, requests>>

-------------------------------------------------------------------------------
Thread(c) == FileSent(c) \/ Over(c) \/ Leave(c) \/ Close(c)

ConnNext ==
    \/ \E c \in Connections :
         \/ \E k \in Classes : Accept(c, k)
         \/ WatchBegin(c) \/ FileAsked(c) \/ FileSent(c) \/ End(c) \/ Fatal(c)
         \/ Over(c) \/ Leave(c) \/ LeaveFatal(c) \/ Close(c) \/ PeerGone(c)
         \/ \E s \in Sessions : Enroll(c, s) \/ Watch(c, s) \/ Prove(c, s)
    \/ \E k \in Classes : LoopEnds(k)
    \/ Stop \/ EndConnections \/ Joined
    \/ \E s \in Sessions : SessionEnds(s)

\* Every thread runs; a wake is delivered because stop and fail hold or make a connection
\* for each loop.  Nothing is asked of the peers.
ConnFairness ==
    /\ \A c \in Connections : WF_connVars(Thread(c))
    /\ \A k \in Classes : WF_connVars(LoopEnds(k))
    /\ WF_connVars(EndConnections) /\ WF_connVars(Joined)

ConnSpec == ConnInit /\ [][ConnNext]_connVars /\ ConnFairness

-------------------------------------------------------------------------------
(* Properties *)

\* A live session has a connection that will end it, and one only; so no way a connection
\* ends (a stream that closes, a spent challenge, a peer that goes) leaves a session live
\* with nobody behind it.
NoOrphanSession ==
    \A s \in Sessions :
       LET carriers == {c \in Connections : link[c].bound = s /\ link[c].pc \notin {"leaving", "done"}}
       IN session[s] = "live" /\ ~failure => Cardinality(carriers) = 1

\* Stopped or failed, the service ends: every thread is joined, although no peer goes away.
ServiceEnds == (failure \/ stopping # "no") ~> (stopping = "done")

===============================================================================
