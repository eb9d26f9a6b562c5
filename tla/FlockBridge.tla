-------------------------------- MODULE FlockBridge --------------------------------
(***************************************************************************)
(* A flock served to other hosts (agent-mesh-cli flock_bridge.rs).  On the *)
(* remote host a proxy takes local connections and opens a bus session for *)
(* each; at home each session is piped to the server's attach socket.      *)
(* Both sides count what is open against a Gate, and give a place back     *)
(* only when the connection behind it is really closed.                    *)
(*                                                                         *)
(* A stream is one such chain: client, proxy, session, home, worker (the   *)
(* server's thread, FlockConnections).  Of the messages piped only the     *)
(* ends and failures count: a bus session delivers a goodbye after what    *)
(* was sent before it (BusSession).                                        *)
(***************************************************************************)
EXTENDS Integers, FiniteSets

CONSTANTS
    Hops,        \* streams that can be asked for
    Hosts,       \* remote hosts, one proxy each
    Limits,      \* the limits that a gate at home may be made with
    ProxyTotal   \* what a proxy's own gate lets through

\* There are as many hops as clients ask for.
ASSUME BridgeAssumption == IsFiniteSet(Hops) /\ Limits \subseteq [total : Nat, per_peer : Nat]

VARIABLES
    limits,   \* Gate.limits, at home, for good
    host,     \* the host that each stream comes from
    client,   \* the local connection: "none", "open" or "gone"
    proxy,    \* the proxy's task, each direction of its pipe included
    home,     \* the home's task, likewise
    backend,  \* the server's thread: "none", "serving" or "closed"
    cut       \* streams whose bus session is broken

setup == <<limits, host>>
bridgeVars == <<setup, client, proxy, home, backend, cut>>

NoTask == [at |-> "none", up |-> FALSE, down |-> FALSE]
Piping == [at |-> "pipe", up |-> FALSE, down |-> FALSE]

BridgeInit ==
    /\ limits \in Limits /\ host \in [Hops -> Hosts]
    /\ client = [s \in Hops |-> "none"] /\ backend = [s \in Hops |-> "none"]
    /\ proxy = [s \in Hops |-> NoTask] /\ home = [s \in Hops |-> NoTask]
    /\ cut = {}

\* The permits out: a task holds one for its whole life.
Held(task, from) ==
    {s \in from : task[s].at \in {"opening", "connecting", "accepting", "pipe", "drain"}}
Of(h) == {s \in Hops : host[s] = h}

\* A plausible bug: only the peer's share is looked at.
HomeAdmitsShare(s) == Cardinality(Held(home, Of(host[s]))) < limits.per_peer

\* Gate::try_acquire, at home and at the proxy
HomeAdmits(s) ==
    /\ Cardinality(Held(home, Hops)) < limits.total
    /\ Cardinality(Held(home, Of(host[s]))) < limits.per_peer

ProxyAdmits(s) == Cardinality(Held(proxy, Of(host[s]))) < ProxyTotal

-------------------------------------------------------------------------------
(* serve_proxy and serve_home: opening *)

\* A connection over the limit just ends.
Dial(s) ==
    /\ client[s] = "none"
    /\ IF ProxyAdmits(s)
       THEN /\ client' = [client EXCEPT ![s] = "open"]
            /\ proxy' = [proxy EXCEPT ![s].at = "opening"]
       ELSE /\ client' = [client EXCEPT ![s] = "gone"]
            /\ UNCHANGED proxy
    /\ UNCHANGED <<setup, home, backend, cut>>

\* The home refused, cannot be reached, or did not answer in time.
OpenFails(s) ==
    /\ proxy[s].at = "opening"
    /\ proxy' = [proxy EXCEPT ![s].at = "over"]
    /\ UNCHANGED <<setup, client, home, backend, cut>>

\* The open arrives, perhaps after the proxy gave it up: a place first, or a refusal.
HomeTakes(s) ==
    /\ proxy[s].at \in {"opening", "over"} /\ home[s].at = "none"
    /\ home' = [home EXCEPT ![s].at = IF HomeAdmits(s) THEN "connecting" ELSE "over"]
    /\ UNCHANGED <<setup, client, proxy, backend, cut>>

\* Then the attach socket: the server has a thread for it from here.
HomeConnects(s) ==
    /\ home[s].at = "connecting"
    /\ home' = [home EXCEPT ![s].at = "accepting"]
    /\ backend' = [backend EXCEPT ![s] = "serving"]
    /\ UNCHANGED <<setup, client, proxy, cut>>

\* Nobody serves there: refuse, and the place is free.
HomeNoServer(s) ==
    /\ home[s].at = "connecting"
    /\ home' = [home EXCEPT ![s].at = "over"]
    /\ UNCHANGED <<setup, client, proxy, backend, cut>>

\* The accept is written, to a proxy that waits for it or into a session that nobody has.
HomeAccepts(s) ==
    /\ home[s].at = "accepting"
    /\ home' = [home EXCEPT ![s] = Piping]
    /\ IF proxy[s].at = "opening"
       THEN proxy' = [proxy EXCEPT ![s] = Piping] /\ UNCHANGED cut
       ELSE cut' = cut \cup {s} /\ UNCHANGED proxy
    /\ UNCHANGED <<setup, client, backend>>

\* The accept cannot be written, though the proxy may have got it: `?` drops the connection
\* and the place, without end_backend.
HomeAcceptFails(s, heard) ==
    /\ home[s].at = "accepting"
    /\ home' = [home EXCEPT ![s].at = "left"]
    /\ heard => proxy[s].at = "opening"
    /\ proxy' = IF heard THEN [proxy EXCEPT ![s] = Piping] ELSE proxy
    /\ cut' = cut \cup {s}
    /\ UNCHANGED <<setup, client, backend>>

-------------------------------------------------------------------------------
(* pipe: two directions, until both have ended or one fails *)

\* up: the local end is done, say goodbye
ProxyUp(s) ==
    /\ proxy[s].at = "pipe" /\ ~proxy[s].up /\ client[s] = "gone" /\ s \notin cut
    /\ proxy' = [proxy EXCEPT ![s].up = TRUE]
    /\ UNCHANGED <<setup, client, home, backend, cut>>

HomeUp(s) ==
    /\ home[s].at = "pipe" /\ ~home[s].up /\ backend[s] = "closed" /\ s \notin cut
    /\ home' = [home EXCEPT ![s].up = TRUE]
    /\ UNCHANGED <<setup, client, proxy, backend, cut>>

\* down: the far end has said goodbye, shut the local socket for writing
ProxyDown(s) ==
    /\ proxy[s].at = "pipe" /\ ~proxy[s].down /\ home[s].up /\ s \notin cut
    /\ proxy' = [proxy EXCEPT ![s].down = TRUE]
    /\ UNCHANGED <<setup, client, home, backend, cut>>

\* A plausible bug: a far end that is done is not passed on to the server.
HomeDownKept(s) ==
    /\ home[s].at = "pipe" /\ ~home[s].down /\ proxy[s].up /\ s \notin cut /\ backend[s] = "closed"
    /\ home' = [home EXCEPT ![s].down = TRUE]
    /\ UNCHANGED <<setup, client, proxy, backend, cut>>

HomeDown(s) ==
    /\ home[s].at = "pipe" /\ ~home[s].down /\ proxy[s].up /\ s \notin cut
    /\ home' = [home EXCEPT ![s].down = TRUE]
    /\ UNCHANGED <<setup, client, proxy, backend, cut>>

Done(task, s) == task[s].at = "pipe" /\ task[s].up /\ task[s].down

\* The session is broken (recv fails, a send fails, the idle limit passes), or what came is
\* not one wire message (check_frame): the other direction is dropped with its half.
ProxyFails(s) ==
    /\ proxy[s].at = "pipe" /\ ~Done(proxy, s)
    /\ proxy' = [proxy EXCEPT ![s].at = "drain"]
    /\ cut' = cut \cup {s}
    /\ UNCHANGED <<setup, client, home, backend>>

HomeFails(s) ==
    /\ home[s].at = "pipe" /\ ~Done(home, s)
    /\ home' = [home EXCEPT ![s].at = "drain"]
    /\ cut' = cut \cup {s}
    /\ UNCHANGED <<setup, client, proxy, backend>>

ProxyDone(s) ==
    /\ Done(proxy, s)
    /\ proxy' = [proxy EXCEPT ![s].at = "drain"]
    /\ UNCHANGED <<setup, client, home, backend, cut>>

HomeDone(s) ==
    /\ Done(home, s)
    /\ home' = [home EXCEPT ![s].at = "drain"]
    /\ UNCHANGED <<setup, client, proxy, backend, cut>>

-------------------------------------------------------------------------------
(* end_backend, and the permit's Drop *)

ProxyEnds(s) ==
    /\ proxy[s].at = "drain" /\ client[s] = "gone"
    /\ proxy' = [proxy EXCEPT ![s].at = "over"]
    /\ UNCHANGED <<setup, client, home, backend, cut>>

\* A plausible bug: the place is given back when the pipe is done.
HomeEndsAtOnce(s) ==
    /\ home[s].at = "drain"
    /\ home' = [home EXCEPT ![s].at = "over"]
    /\ UNCHANGED <<setup, client, proxy, backend, cut>>

HomeEnds(s) ==
    /\ home[s].at = "drain" /\ backend[s] = "closed"
    /\ home' = [home EXCEPT ![s].at = "over"]
    /\ UNCHANGED <<setup, client, proxy, backend, cut>>

-------------------------------------------------------------------------------
(* The ends of the chain *)

\* The server's thread ends by itself, or when its peer is done writing.
WorkerCloses(s) ==
    /\ backend[s] = "serving"
    /\ backend' = [backend EXCEPT ![s] = "closed"]
    /\ UNCHANGED <<setup, client, proxy, home, cut>>

Told(s) == home[s].down \/ home[s].at \in {"drain", "over", "left"}

ClientLeaves(s) ==
    /\ client[s] = "open"
    /\ client' = [client EXCEPT ![s] = "gone"]
    /\ UNCHANGED <<setup, proxy, home, backend, cut>>

\* The link between the hosts goes down under an open session.
Break(s) ==
    /\ home[s].at = "pipe" /\ s \notin cut
    /\ cut' = cut \cup {s}
    /\ UNCHANGED <<setup, client, proxy, home, backend>>

\* The attach process dies with all its tasks.
ProxyDies(h) ==
    /\ Held(proxy, Of(h)) # {}
    /\ proxy' = [s \in Hops |-> IF s \in Held(proxy, Of(h)) THEN [proxy[s] EXCEPT !.at = "over"]
                                   ELSE proxy[s]]
    /\ cut' = cut \cup {s \in Held(proxy, Of(h)) : home[s].at # "none"}
    /\ UNCHANGED <<setup, client, home, backend>>

-------------------------------------------------------------------------------
BridgeNext ==
    \/ \E s \in Hops :
         \/ Dial(s) \/ OpenFails(s) \/ HomeTakes(s) \/ HomeConnects(s) \/ HomeNoServer(s)
         \/ HomeAccepts(s) \/ \E heard \in BOOLEAN : HomeAcceptFails(s, heard)
         \/ ProxyUp(s) \/ ProxyDown(s) \/ HomeUp(s) \/ HomeDown(s)
         \/ ProxyFails(s) \/ HomeFails(s) \/ ProxyDone(s) \/ HomeDone(s)
         \/ ProxyEnds(s) \/ HomeEnds(s)
         \/ WorkerCloses(s) \/ ClientLeaves(s) \/ Break(s)
    \/ \E h \in Hosts : ProxyDies(h)

\* Tasks run on; a broken session is noticed (its idle limit); the server's thread ends once
\* its peer is done (FlockConnections, FlockStream).  No client has to leave, and no open
\* has to succeed, but it ends (its timeout).
BridgeFairness ==
    \A s \in Hops :
        /\ WF_bridgeVars((OpenFails(s) \/ ProxyUp(s) \/ ProxyDone(s) \/ ProxyEnds(s)))
        /\ WF_bridgeVars(ProxyDown(s))
        /\ WF_bridgeVars((HomeConnects(s) \/ HomeNoServer(s)
                              \/ HomeAccepts(s) \/ HomeAcceptFails(s, FALSE)
                              \/ HomeUp(s) \/ HomeDone(s) \/ HomeEnds(s)))
        /\ WF_bridgeVars(HomeDown(s))
        /\ WF_bridgeVars(s \in cut /\ (ProxyFails(s) \/ HomeFails(s)))
        /\ WF_bridgeVars(Told(s) /\ WorkerCloses(s))

BridgeSpec == BridgeInit /\ [][BridgeNext]_bridgeVars /\ BridgeFairness

-------------------------------------------------------------------------------
(* Properties *)

\* The streams with a place or a thread are within the limits, in all and from one host.
InLimits(some) ==
    /\ Cardinality(some) <= limits.total
    /\ \A h \in Hosts : Cardinality(some \cap Of(h)) <= limits.per_peer

\* However streams end, of the server's threads for remote hosts no more serve than the
\* limits allow, in all or from one host, but for those that the home hung up on because it
\* could not accept (serve_home's `accept().await?`): on every other way out, a place is held
\* until the thread behind it is gone (end_backend).
BackendWithinGate ==
    InLimits({s \in Hops : backend[s] = "serving" /\ home[s].at # "left"})

\* A client that leaves, a session that breaks and a server that closes each give back the
\* home's place and end the thread, the one that was hung up on too: the goodbye or the
\* failure crosses every hop, and none waits for another.  (The last one once the client has
\* left too: it is told, and may take its time.)
PlacesComeBack ==
    \A s \in Hops :
        s \in Held(home, Hops) /\ (client[s] = "gone" \/ s \in cut)
            ~> home[s].at \in {"over", "left"} /\ backend[s] # "serving"

===============================================================================
