------------------------------ MODULE MCServing ------------------------------
(***************************************************************************)
(* What a peer has on the other end of a stream: the log streams of the    *)
(* flock server, its connections, the bridge to other hosts, and the       *)
(* listener of a one-shot message.  A behaviour explores one of them;      *)
(* fairness is asked of the component that a liveness property is about.   *)
(***************************************************************************)
EXTENDS FlockStream, FlockBridge, FlockConnections, OneShot

VARIABLE which   \* the component that this behaviour is of

\* Each limit of the gate is met by itself: the share of one host that both streams
\* come from, and the total when they come from two.
EachLimit == {[total |-> 2, per_peer |-> 1], [total |-> 1, per_peer |-> 2]}

OneBinds == host = [s \in Hops |-> IF limits.per_peer < limits.total THEN 1 ELSE s]

allVars == <<which, vars, bridgeVars, connVars, oneShotVars>>

MCInit ==
    /\ which \in {"stream", "bridge", "connections", "oneshot"}
    /\ Init
    /\ BridgeInit /\ OneBinds /\ (which # "bridge" => limits.total = 2)
    /\ ConnInit
    /\ OneShotInit

MCNext ==
    \/ which = "stream" /\ Next
       /\ UNCHANGED <<which, bridgeVars, connVars, oneShotVars>>
    \/ which = "bridge" /\ BridgeNext
       /\ UNCHANGED <<which, vars, connVars, oneShotVars>>
    \/ which = "connections" /\ ConnNext
       /\ UNCHANGED <<which, vars, bridgeVars, oneShotVars>>
    \/ which = "oneshot" /\ OneShotNext
       /\ UNCHANGED <<which, vars, bridgeVars, connVars>>

MCSpec == MCInit /\ [][MCNext]_allVars

\* Nobody waits for good.  See FlockStream: what is published reaches every open
\* stream, and a stream ends when its peer leaves or the server stops.  See
\* FlockBridge: every way a stream ends gives the place at home back and ends
\* the thread behind it.  See FlockConnections: stopped or failed, the service
\* ends.  See OneShot: the listener decides, and a sender returns.
NobodyWaitsForGood ==
    /\ Fairness => Delivered /\ PeerGoneEnds /\ StopEnds
    /\ BridgeFairness => PlacesComeBack
    /\ ConnFairness => ServiceEnds
    /\ OneShotFairness => ExchangeEnds

===============================================================================
