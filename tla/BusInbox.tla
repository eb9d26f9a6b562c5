------------------------------- MODULE BusInbox --------------------------------
(***************************************************************************)
(* Requests, replies and publishes between the buses of several agents     *)
(* (agent-mesh-bus bus.rs, inbox.rs, reply.rs, replay.rs).                 *)
(*                                                                         *)
(* Every bus runs one task per inbound envelope.  A task admits the        *)
(* envelope, checks a reply's signer against the waiter, then the nonce    *)
(* cache, then the sequence tracker, and only then dispatches: each check  *)
(* takes a lock of its own, so tasks interleave between any two of them.   *)
(* Meanwhile requests are answered, time out or are cancelled.             *)
(*                                                                         *)
(* Envelopes travel on connections of their own: they are lost, overtake   *)
(* one another, and a reply whose first attempt failed late is delivered   *)
(* twice.  An agent may also carry on an envelope that is not its own,     *)
(* answer a request that was not put to it, reply to nothing, or publish   *)
(* to any bus, under a nonce of its own or one that it has seen.           *)
(***************************************************************************)
EXTENDS Integers, Sequences, FiniteSets, SequencesExt

CONSTANTS
    Agents,      \* agent keys, one bus each
    Users,       \* user roots
    UserOf,      \* the user root that certifies each agent
    Messages,    \* what applications send: each stands for one correlation id
    Plan,        \* [from, to, kind] of each message
    Capacity,    \* of the nonce cache
    MaxStrays,   \* bound on envelopes sent out of turn
    Ploys,       \* [from, kind, msg, to, at] of the envelopes signed out of turn
    None

\* Every message has a plan, agents sign out of turn what they may, and None is no
\* agent.
ASSUME InboxAssumption ==
    /\ Plan \in [Messages -> [from : Agents, to : Agents, kind : {"request", "publish"}]]
    /\ Ploys \subseteq [from : Agents, kind : {"publish", "reply"}, msg : Messages,
                        to : Agents \union {None}, at : Agents]
    /\ None \notin Agents /\ Capacity \in Nat /\ MaxStrays \in Nat

VARIABLES
    seq,       \* the last sequence each agent's Sequencer issued
    packets,   \* packets under way: an envelope, its carrier, where it goes
    tasks,     \* the inbound tasks of every bus
    nonces,    \* NonceCache.order of each bus, oldest first
    tracker,   \* SequenceTracker of each bus: the last sequence by sender
    waiters,   \* ReplyWaiter of each bus: the correlations awaited
    serving,   \* the agents whose handler is registered
    call,      \* how each send_via or request_via of an application stands
    answer,    \* who signed the reply in a call's oneshot channel, or None
    strays,    \* how many envelopes were sent out of turn
    \* history
    signed,    \* every envelope signed so far
    handled,   \* what reached a handler or the subscribers, and where
    cached,    \* packets whose nonce went into the cache of their bus
    passed,    \* packets that passed both replay checks at their bus
    refused    \* packets that a replay check refused at their bus

replayState == <<nonces, tracker>>
judged == <<handled, cached, passed, refused>>
history == <<signed, judged>>
inboxVars == <<seq, packets, tasks, replayState, waiters, serving, call, answer,
          strays, history>>

InboxInit ==
    /\ seq = [a \in Agents |-> 0]
    /\ packets = {} /\ tasks = {}
    /\ nonces = [a \in Agents |-> <<>>]
    /\ tracker = [a \in Agents |-> [b \in Agents |-> 0]]
    /\ waiters = [a \in Agents |-> {}]
    /\ serving = {}
    /\ call = [m \in Messages |-> "idle"]
    /\ answer = [m \in Messages |-> None]
    /\ strays = 0
    /\ signed = {} /\ handled = {} /\ cached = {} /\ passed = {} /\ refused = {}

Requester(m) == Plan[m].from
Target(m) == Plan[m].to
IsRequest(m) == Plan[m].kind = "request"

\* The reply of the agent that the request was put to.
TrueReply(e) == e.kind = "reply" /\ IsRequest(e.msg) /\ e.from = Target(e.msg)

\* make_envelope: signed under the agent's next sequence.  The nonce is drawn
\* at random, so that of an envelope is as good as its name.
Envelope(kind, m, from, to, nonce) ==
    [kind |-> kind, msg |-> m, from |-> from, to |-> to,
     seq |-> seq[from] + 1, nonce |-> nonce]

\* One copy of an envelope on a connection to an agent.
Packet(env, copy, carrier, at) ==
    [env |-> env, copy |-> copy, carrier |-> carrier, at |-> at]

-------------------------------------------------------------------------------
(* Applications *)

\* request_via registers the waiter, then sends; publish_to only sends.
Send(m) ==
    /\ call[m] = "idle"
    /\ LET env == Envelope(Plan[m].kind, m, Requester(m), Target(m),
                           <<Plan[m].kind, m>>)
       IN  /\ packets' = packets \union {Packet(env, 1, Requester(m), Target(m))}
           /\ signed' = signed \union {env}
    /\ seq' = [seq EXCEPT ![Requester(m)] = @ + 1]
    /\ waiters' = IF IsRequest(m)
                  THEN [waiters EXCEPT ![Requester(m)] = @ \union {m}]
                  ELSE waiters
    /\ call' = [call EXCEPT ![m] = "sending"]
    /\ UNCHANGED <<tasks, replayState, serving, answer, strays, judged>>

\* send_via returns: a request now awaits its reply, a publish is done.
Sent(m) ==
    /\ call[m] = "sending"
    /\ call' = [call EXCEPT ![m] = IF IsRequest(m) THEN "waiting" ELSE "done"]
    /\ UNCHANGED <<seq, packets, tasks, replayState, waiters, serving, answer,
                   strays, history>>

\* The reply is in the channel and the request returns it.
Complete(m) ==
    /\ call[m] = "waiting" /\ answer[m] # None
    /\ call' = [call EXCEPT ![m] = "done"]
    /\ UNCHANGED <<seq, packets, tasks, replayState, waiters, serving, answer,
                   strays, history>>

\* A plausible bug: a request that ends without its reply leaves its waiter.
GiveUpOnly(m) ==
    /\ call[m] \in {"sending", "waiting"}
    /\ call' = [call EXCEPT ![m] = "failed"]
    /\ UNCHANGED <<seq, packets, tasks, replayState, waiters, serving, answer,
                   strays, history>>

\* The send fails, the timeout passes or the caller drops the future: the
\* receiver is dropped, and removes its own registration if it is still there.
\* The timer may fire as the reply is delivered, so an answer does not stop it.
GiveUp(m) ==
    /\ call[m] \in {"sending", "waiting"}
    /\ call' = [call EXCEPT ![m] = "failed"]
    /\ waiters' = [waiters EXCEPT ![Requester(m)] = @ \ {m}]
    /\ UNCHANGED <<seq, packets, tasks, replayState, serving, answer, strays,
                   history>>

\* handle_requests: the handler is live when the call returns.
Serve(a) ==
    /\ a \notin serving
    /\ serving' = serving \union {a}
    /\ UNCHANGED <<seq, packets, tasks, replayState, waiters, call, answer,
                   strays, history>>

-------------------------------------------------------------------------------
(* The network and other agents *)

\* An agent carries an envelope, its own or another's, to some agent once
\* more, over a connection of its own.
Forward(env, carrier, at) ==
    /\ strays < MaxStrays
    /\ env \in signed
    /\ carrier # at
    /\ packets' = packets \union {Packet(env, 0, carrier, at)}
    /\ strays' = strays + 1
    /\ UNCHANGED <<seq, tasks, replayState, waiters, serving, call, answer,
                   history>>

\* The nonce of an envelope out of turn, drawn like any other.
OwnNonce == <<"stray", strays + 1>>

\* An agent signs an envelope that no call of an application stands for and takes
\* it to some bus: a publish, an answer to a request that was not put to it, or a
\* reply to nothing (under the correlation of no request).  It draws a nonce, or
\* copies one that it has seen, as it learns a correlation from the request.
Stray(ploy, nonce) ==
    /\ strays < MaxStrays
    /\ ~TrueReply(ploy)
    /\ ploy.kind = "reply" /\ IsRequest(ploy.msg) => call[ploy.msg] # "idle"
    /\ nonce = OwnNonce \/ \E env \in signed : env.nonce = nonce
    /\ LET env == Envelope(ploy.kind, ploy.msg, ploy.from, ploy.to, nonce)
       IN  /\ packets' = packets \union {Packet(env, 1, ploy.from, ploy.at)}
           /\ signed' = signed \union {env}
    /\ seq' = [seq EXCEPT ![ploy.from] = @ + 1]
    /\ strays' = strays + 1
    /\ UNCHANGED <<tasks, replayState, waiters, serving, call, answer, judged>>

-------------------------------------------------------------------------------
(* The inbound tasks of a bus *)

\* inbox::admit: the carrier is the signer, of the local user, and an envelope
\* to one agent (Recipient::Direct) is addressed here; any other recipient is
\* None.  Nothing changes before all of it holds.
Admits(p) ==
    /\ p.carrier = p.env.from
    /\ UserOf[p.carrier] = UserOf[p.env.from]
    /\ UserOf[p.env.from] = UserOf[p.at]
    /\ p.env.to \in {p.at, None}

Task(p, pc) == [packet |-> p, pc |-> pc]

\* spawn_accept_loop gives the envelope a task of its own, which ends at once
\* when it is not admitted.
AcceptLoop(p) ==
    /\ p \in packets
    /\ packets' = packets \ {p}
    /\ tasks' = IF Admits(p)
                THEN tasks \union
                       {Task(p, IF p.env.kind = "reply" THEN "peer" ELSE "nonce")}
                ELSE tasks
    /\ UNCHANGED <<seq, replayState, waiters, serving, call, answer, strays,
                   history>>

\* The task goes on to pc, or ends.
Goto(t, pc) == tasks' = (tasks \ {t}) \union {Task(t.packet, pc)}
End(t) == tasks' = tasks \ {t}

\* A plausible bug: the correlation alone identifies a reply.
CorrelationIsEnough(env, at) == FALSE

\* PeerMismatch: the waiter is known and bound to another agent than the
\* reply's signer.
PeerMismatch(env, at) ==
    env.msg \in waiters[at] /\ Target(env.msg) # env.from

\* A plausible bug: the signer is only checked when the reply is delivered.
CheckPeerLater(t) ==
    /\ t.pc = "peer"
    /\ Goto(t, "nonce")
    /\ UNCHANGED <<seq, packets, replayState, waiters, serving, call, answer,
                   strays, history>>

\* check_peer: a mismatched reply ends here, before it touches the nonce
\* cache.
CheckPeer(t) ==
    /\ t.pc = "peer"
    /\ IF PeerMismatch(t.packet.env, t.packet.at) THEN End(t) ELSE Goto(t, "nonce")
    /\ UNCHANGED <<seq, packets, replayState, waiters, serving, call, answer,
                   strays, history>>

\* NonceCache::check_and_insert, evicting the oldest beyond the capacity.
CheckNonce(t) ==
    LET env == t.packet.env
        at == t.packet.at
        order == Append(nonces[at], env.nonce)
        excess == IF Len(order) > Capacity THEN Len(order) - Capacity ELSE 0
    IN  /\ t.pc = "nonce"
        /\ IF env.nonce \in Range(nonces[at])
           THEN /\ End(t)
                /\ refused' = refused \union {t.packet}
                /\ UNCHANGED <<nonces, cached>>
           ELSE /\ nonces' = [nonces EXCEPT ![at] = SubSeq(order, excess + 1, Len(order))]
                /\ cached' = cached \union {t.packet}
                /\ Goto(t, "sequence")
                /\ UNCHANGED refused
        /\ UNCHANGED <<seq, packets, tracker, waiters, serving, call, answer,
                       strays, signed, handled, passed>>

\* A plausible bug: a sequence is accepted unless it is the last one again.
CheckSequenceOnlyLast(t) ==
    LET env == t.packet.env
        at == t.packet.at
    IN  /\ t.pc = "sequence"
        /\ IF env.seq # tracker[at][env.from]
           THEN /\ tracker' = [tracker EXCEPT ![at][env.from] = env.seq]
                /\ passed' = passed \union {t.packet}
                /\ Goto(t, "dispatch")
                /\ UNCHANGED refused
           ELSE /\ End(t)
                /\ refused' = refused \union {t.packet}
                /\ UNCHANGED <<tracker, passed>>
        /\ UNCHANGED <<seq, packets, nonces, waiters, serving, call, answer,
                       strays, signed, handled, cached>>

\* SequenceTracker::check_and_advance.
CheckSequence(t) ==
    LET env == t.packet.env
        at == t.packet.at
    IN  /\ t.pc = "sequence"
        /\ IF env.seq > tracker[at][env.from]
           THEN /\ tracker' = [tracker EXCEPT ![at][env.from] = env.seq]
                /\ passed' = passed \union {t.packet}
                /\ Goto(t, "dispatch")
                /\ UNCHANGED refused
           ELSE /\ End(t)
                /\ refused' = refused \union {t.packet}
                /\ UNCHANGED <<tracker, passed>>
        /\ UNCHANGED <<seq, packets, nonces, waiters, serving, call, answer,
                       strays, signed, handled, cached>>

\* dispatch_request: run the topic's handler, if there is one.
DispatchRequest(t) ==
    /\ t.pc = "dispatch" /\ t.packet.env.kind = "request"
    /\ IF t.packet.at \in serving
       THEN Goto(t, "running") /\ handled' = handled \union {t.packet}
       ELSE End(t) /\ UNCHANGED handled
    /\ UNCHANGED <<seq, packets, replayState, waiters, serving, call, answer,
                   strays, signed, cached, passed, refused>>

\* The handler returns a body, which goes back to the request's signer.  When
\* the first attempt fails after the peer read it, dialing back delivers the
\* same envelope again.
Reply(t, copies) ==
    LET env == t.packet.env
        reply == Envelope("reply", env.msg, t.packet.at, env.from, <<"reply", env.msg>>)
    IN  /\ t.pc = "running"
        /\ End(t)
        /\ packets' = packets \union
                     {Packet(reply, c, t.packet.at, env.from) : c \in 1..copies}
        /\ signed' = signed \union {reply}
        /\ seq' = [seq EXCEPT ![t.packet.at] = @ + 1]
        /\ UNCHANGED <<replayState, waiters, serving, call, answer, strays,
                       judged>>

\* The handler fails: nothing is sent back.
HandlerFails(t) ==
    /\ t.pc = "running"
    /\ End(t)
    /\ UNCHANGED <<seq, packets, replayState, waiters, serving, call, answer,
                   strays, history>>

\* dispatch_publish: hand the body to the topic's subscribers.
DispatchPublish(t) ==
    /\ t.pc = "dispatch" /\ t.packet.env.kind = "publish"
    /\ End(t)
    /\ handled' = handled \union {t.packet}
    /\ UNCHANGED <<seq, packets, replayState, waiters, serving, call, answer,
                   strays, signed, cached, passed, refused>>

\* ReplyWaiter::deliver, under its lock: the signer is compared again and the
\* waiter taken.
TakeWaiter(t) ==
    LET env == t.packet.env
        at == t.packet.at
    IN  /\ t.pc = "dispatch" /\ env.kind = "reply"
        /\ IF env.msg \in waiters[at] /\ ~PeerMismatch(env, at)
           THEN /\ waiters' = [waiters EXCEPT ![at] = @ \ {env.msg}]
                /\ Goto(t, "wake")
           ELSE End(t) /\ UNCHANGED waiters
        /\ UNCHANGED <<seq, packets, replayState, serving, call, answer, strays,
                       history>>

\* The lock released, the reply goes into the oneshot channel, unless its
\* receiver was dropped meanwhile.
Wake(t) ==
    LET m == t.packet.env.msg
    IN  /\ t.pc = "wake"
        /\ End(t)
        /\ answer' = IF call[m] \in {"sending", "waiting"}
                     THEN [answer EXCEPT ![m] = t.packet.env.from] ELSE answer
        /\ UNCHANGED <<seq, packets, replayState, waiters, serving, call, strays,
                       history>>

TaskStep(t) ==
    \/ CheckPeer(t) \/ CheckNonce(t) \/ CheckSequence(t)
    \/ DispatchRequest(t) \/ DispatchPublish(t)
    \/ \E copies \in 1..2 : Reply(t, copies)
    \/ HandlerFails(t)
    \/ TakeWaiter(t) \/ Wake(t)

InboxNext ==
    \/ \E m \in Messages : Send(m) \/ Sent(m) \/ Complete(m) \/ GiveUp(m)
    \/ \E m \in Messages : IsRequest(m) /\ Serve(Target(m))
    \/ \E p \in packets : AcceptLoop(p)
    \/ \E env \in signed, c, at \in Agents : Forward(env, c, at)
    \/ \E ploy \in Ploys, nonce \in {OwnNonce} \union {env.nonce : env \in signed} :
           Stray(ploy, nonce)
    \/ \E t \in tasks : TaskStep(t)

InboxSpec == InboxInit /\ [][InboxNext]_inboxVars

-------------------------------------------------------------------------------
(* Properties *)

Nonces == ({"request", "publish", "reply"} \X Messages) \union ({"stray"} \X (1..MaxStrays))

Envelopes ==
    [kind : {"request", "publish", "reply"}, msg : Messages, from : Agents,
     to : Agents \union {None}, seq : Nat, nonce : Nonces]

Packets == [env : Envelopes, copy : 0..2, carrier : Agents, at : Agents]

\* Every variable keeps its type.
InboxTypeOK ==
    /\ seq \in [Agents -> Nat]
    /\ packets \subseteq Packets /\ handled \subseteq Packets
    /\ \A t \in tasks :
          /\ t.packet \in Packets
          /\ t.pc \in {"peer", "nonce", "sequence", "dispatch", "running", "wake"}
    /\ nonces \in [Agents -> Seq(Nonces)]
    /\ \A a \in Agents : Len(nonces[a]) <= Capacity
    /\ tracker \in [Agents -> [Agents -> Nat]]
    /\ waiters \in [Agents -> SUBSET Messages]
    /\ serving \subseteq Agents
    /\ call \in [Messages -> {"idle", "sending", "waiting", "done", "failed"}]
    /\ answer \in [Messages -> Agents \union {None}]
    /\ strays \in 0..MaxStrays
    /\ signed \subseteq Envelopes
    /\ cached \subseteq Packets /\ passed \subseteq Packets /\ refused \subseteq Packets

\* However often it arrives, in whatever hands, and though the nonce cache
\* forgets, an envelope reaches the handler or the subscribers of a bus once at
\* most, of no bus but its addressee's, and only within one user
\* (Inbox::on_envelope).
HandledOnce ==
    \A p \in handled :
        /\ p.env.to \in {p.at, None}
        /\ UserOf[p.env.from] = UserOf[p.at]
        /\ \A q \in handled : p.env = q.env /\ p.at = q.at => p = q

\* A request returns a body only from the agent it was put to, which handled
\* it: a reply of any other signer never completes it.
AnsweredByTarget ==
    \A m \in Messages :
        IsRequest(m) /\ call[m] = "done" =>
            /\ answer[m] = Target(m)
            /\ \E p \in handled : p.env.msg = m /\ p.env.kind = "request"

Live(m) == call[m] \in {"sending", "waiting"}

BeingWoken(m) == \E t \in tasks : t.pc = "wake" /\ t.packet.env.msg = m

\* A waiter is there exactly as long as its request still awaits the reply: it
\* never outlives the request (#97), and nothing but the reply itself takes it.
WaiterLivesWithRequest ==
    \A m \in Messages :
        IsRequest(m) =>
            (m \in waiters[Requester(m)] <=>
                Live(m) /\ answer[m] = None /\ ~BeingWoken(m))

\* A packet of the same sender, as late or later, was accepted at this bus.
Overtaken(p) ==
    \E q \in passed : q.at = p.at /\ q.env.from = p.env.from /\ q.env.seq >= p.env.seq

\* The tracker has yet to judge this envelope at this bus.
ToBeJudged(p) ==
    \E t \in tasks : t.packet.env = p.env /\ t.packet.at = p.at /\ t.pc = "sequence"

\* Another envelope took the nonce of this one, and the two do not answer the same
\* request.
NonceTaken(p) ==
    \E q \in cached :
        /\ q.at = p.at /\ q.env.nonce = p.env.nonce /\ q.env # p.env
        /\ ~(q.env.kind = "reply" /\ p.env.kind = "reply" /\ q.env.msg = p.env.msg)

\* The replay checks refuse an envelope at a bus only when it is a reply that
\* nobody awaits of its signer, when the envelope itself was accepted or is about
\* to be judged there, when a later one of its sender overtook it, or when another
\* envelope brought its nonce.  The cache does not ask whose nonce it holds, so the
\* last can be the doing of another agent, with this exception: a reply that is
\* awaited is never lost to an answer of somebody else under its correlation
\* (inbox.rs, "must not be able to poison replay state by signing those values").
NeverSpoiled ==
    \A p \in refused :
        \/ p.env.kind = "reply" /\ ~(TrueReply(p.env) /\ Live(p.env.msg))
        \/ Overtaken(p) \/ ToBeJudged(p) \/ NonceTaken(p)

\* An envelope is handled once at most at a bus, by its addressee and within one user;
\* an awaited reply is not lost to answers of others under its correlation; and a request
\* is answered by the agent it was put to, its waiter gone when it is.
InboxTakesEachOnce ==
    HandledOnce /\ NeverSpoiled /\ AnsweredByTarget /\ WaiterLivesWithRequest
=============================================================================
