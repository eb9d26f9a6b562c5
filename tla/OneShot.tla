--------------------------------- MODULE OneShot ----------------------------------
(***************************************************************************)
(* `amesh send` and `amesh listen` (cli send.rs, listen.rs): one envelope  *)
(* over one stream of one connection, behind the Hello exchange of         *)
(* agent-mesh-transport (handshake.rs, stream.rs, endpoint.rs).  Senders   *)
(* run at the same time; the listener has one task per connection.         *)
(*                                                                         *)
(* Some senders are of another user, and some go silent wherever they      *)
(* are.  QUIC is external: frames of one direction arrive in order, a      *)
(* connection may break, and its idle timer breaks one on which a side is  *)
(* gone.                                                                   *)
(***************************************************************************)
EXTENDS Integers, Sequences, FiniteSets

CONSTANTS
    Senders,      \* runs of `amesh send`; the connection of each has its name
    Strangers,    \* those whose certificate is of another user
    Silent        \* those that may stop at any point without closing anything

Listener == 0   \* no sender is called so

VARIABLES
    bound,     \* ports tried by `listen`, or that its endpoint is bound
    sender,    \* how far each send is: its command's step
    task,      \* how far the listener's task of a connection is
    conn,      \* "none", "up" or "down"
    toward, back,  \* frames on the stream of a connection, towards the listener and back
    silent,    \* senders that have gone silent
    revoked,   \* who the user has revoked
    printed    \* records the listener has printed, and whether the sender stood

oneShotVars == <<bound, sender, task, conn, toward, back, silent, revoked, printed>>

OneShotInit ==
    /\ bound = 0
    /\ sender = [s \in Senders |-> "idle"]
    /\ task = [s \in Senders |-> "none"]
    /\ conn = [s \in Senders |-> "none"]
    /\ toward = [s \in Senders |-> <<>>] /\ back = [s \in Senders |-> <<>>]
    /\ silent = {} /\ revoked = {} /\ printed = {}

EphemeralBindAttempts == 2   \* 8 in endpoint.rs
Bound == EphemeralBindAttempts + 1
Closed == Bound + 1

At(s, now, next) == sender[s] = now /\ s \notin silent /\ sender' = [sender EXCEPT ![s] = next]
Task(s, now, next) == task[s] = now /\ task' = [task EXCEPT ![s] = next]
\* A side that returns drops its halves of the stream: the other reads an end, and what it
\* waits for is answered.
Gone(s) == conn[s] = "down" \/ sender[s] \in {"ok", "failed"}
LetGo(s) == conn[s] = "down" \/ task[s] \in {"none", "next"}

\* ensure_trustable: a certificate of our user that stands against the log
Trusted(a) == a \notin Strangers /\ a \notin revoked

-------------------------------------------------------------------------------
(* Endpoint::bind and the listener's loop *)

\* bind on a port that was reserved and let go again: another may have it by then
BindAttempt(works) ==
    /\ bound < EphemeralBindAttempts
    /\ bound' = IF works THEN Bound ELSE bound + 1
    /\ UNCHANGED <<sender, task, conn, toward, back, silent, revoked, printed>>

\* listen's duration is over, or ctrl-c: the endpoint closes every connection
ListenEnds ==
    /\ bound = Bound /\ bound' = Closed
    /\ conn' = [s \in Senders |-> IF conn[s] = "up" THEN "down" ELSE conn[s]]
    /\ UNCHANGED <<sender, task, toward, back, silent, revoked, printed>>

\* The connection is accepted and its task spawned.
AcceptPeer(s) ==
    /\ bound = Bound /\ conn[s] = "up" /\ Task(s, "none", "next")
    /\ UNCHANGED <<bound, sender, conn, toward, back, silent, revoked, printed>>

\* accept_bi: the stream shows up with its first frame, or the peer has closed
AcceptBi(s) ==
    /\ conn[s] = "up" /\ toward[s] # <<>> /\ Task(s, "next", "hello")
    /\ UNCHANGED <<bound, sender, conn, toward, back, silent, revoked, printed>>

\* do_handshake as the acceptor: the Hello is answered or rejected
ReadHello(s) ==
    /\ conn[s] = "up" /\ toward[s] # <<>> /\ Head(toward[s]) = "hello"
    /\ toward' = [toward EXCEPT ![s] = Tail(@)]
    /\ IF Trusted(s)
       THEN Task(s, "hello", "live") /\ back' = [back EXCEPT ![s] = Append(@, "hello")]
       ELSE Task(s, "hello", "reject") /\ back' = [back EXCEPT ![s] = Append(@, "reject")]
    /\ UNCHANGED <<bound, sender, conn, silent, revoked, printed>>

\* The reject was finished and is waited for: the dialer has read it or is gone
Rejected(s) ==
    /\ back[s] = <<>> \/ Gone(s)
    /\ Task(s, "reject", "next")
    /\ UNCHANGED <<bound, sender, conn, toward, back, silent, revoked, printed>>

\* A plausible bug: the exchange has no deadline.
NoDeadline(s) ==
    /\ conn[s] = "down" /\ task[s] \in {"hello", "reject"}
    /\ task' = [task EXCEPT ![s] = "next"]
    /\ toward' = [toward EXCEPT ![s] = <<>>]
    /\ UNCHANGED <<bound, sender, conn, back, silent, revoked, printed>>

\* The 5 s deadline of the exchange, or its failure: the stream is dropped, the next awaited
HandshakeTimeout(s) ==
    /\ task[s] \in {"hello", "reject"}
    /\ task' = [task EXCEPT ![s] = "next"]
    /\ toward' = [toward EXCEPT ![s] = <<>>]
    /\ UNCHANGED <<bound, sender, conn, back, silent, revoked, printed>>

\* LiveCheck::new: the peer is looked at again
LiveChecked(s) ==
    /\ Task(s, "live", IF Trusted(s) THEN "envelope" ELSE "next")
    /\ toward' = IF Trusted(s) THEN toward ELSE [toward EXCEPT ![s] = <<>>]
    /\ UNCHANGED <<bound, sender, conn, back, silent, revoked, printed>>

\* A plausible bug: the peer is not looked at when its envelope is there.
ReadEnvelopeUnchecked(s) ==
    /\ toward[s] # <<>> /\ Head(toward[s]) = "envelope"
    /\ Task(s, "envelope", "next")
    /\ toward' = [toward EXCEPT ![s] = Tail(@)]
    /\ printed' = printed \cup {<<s, s \notin revoked>>}
    /\ UNCHANGED <<bound, sender, conn, back, silent, revoked>>

\* recv_envelope: read whole, decoded, verified, the peer admitted; then it is printed, and
\* the streams are dropped
ReadEnvelope(s) ==
    /\ toward[s] # <<>> /\ Head(toward[s]) = "envelope"
    /\ Task(s, "envelope", "next")
    /\ toward' = [toward EXCEPT ![s] = Tail(@)]
    /\ printed' = IF Trusted(s) THEN printed \cup {<<s, s \notin revoked>>} ELSE printed
    /\ UNCHANGED <<bound, sender, conn, back, silent, revoked>>

\* recv_envelope has no deadline of its own: the stream ends, or the connection does
EnvelopeError(s) ==
    /\ toward[s] = <<>> /\ Gone(s)
    /\ Task(s, "envelope", "next")
    /\ UNCHANGED <<bound, sender, conn, toward, back, silent, revoked, printed>>

-------------------------------------------------------------------------------
(* send *)

\* dial_route and dial: the arguments do not fit, nobody answers, or there is a connection
Route(s, found) ==
    /\ found => bound = Bound
    /\ At(s, "idle", IF found THEN "hello" ELSE "failed")
    /\ conn' = [conn EXCEPT ![s] = IF found THEN "up" ELSE @]
    /\ UNCHANGED <<bound, task, toward, back, silent, revoked, printed>>

\* open_bi and write_frame: the dialer speaks first
SendHello(s) ==
    /\ conn[s] = "up" /\ At(s, "hello", "answer")
    /\ toward' = [toward EXCEPT ![s] = Append(@, "hello")]
    /\ UNCHANGED <<bound, task, conn, back, silent, revoked, printed>>

\* read_peer_hello_or_reject, and the listener is looked at too
ReadAnswer(s) ==
    /\ back[s] # <<>>
    /\ At(s, "answer", IF Head(back[s]) = "hello" /\ Listener \notin revoked THEN "envelope" ELSE "failed")
    /\ back' = [back EXCEPT ![s] = Tail(@)]
    /\ UNCHANGED <<bound, task, conn, toward, silent, revoked, printed>>

\* send_envelope and finish
SendEnvelope(s) ==
    /\ conn[s] = "up" /\ At(s, "envelope", "stopped")
    /\ toward' = [toward EXCEPT ![s] = IF LetGo(s) THEN @ ELSE Append(@, "envelope")]
    /\ UNCHANGED <<bound, task, conn, back, silent, revoked, printed>>

\* stopped: the peer has everything, or has let go of the stream.  Either is reported as sent.
Stopped(s) ==
    /\ conn[s] = "up" /\ (toward[s] = <<>> \/ LetGo(s))
    /\ At(s, "stopped", "ok")
    /\ UNCHANGED <<bound, task, conn, toward, back, silent, revoked, printed>>

\* The read or the write fails: the listener dropped its side, or the connection is down
SendGivesUp(s) ==
    /\ \/ conn[s] = "down" /\ sender[s] \in {"hello", "answer", "envelope", "stopped"}
       \/ sender[s] = "envelope" /\ LetGo(s)
       \/ sender[s] = "answer" /\ back[s] = <<>> /\ toward[s] = <<>> /\ task[s] = "next"
    /\ At(s, sender[s], "failed")
    /\ UNCHANGED <<bound, task, conn, toward, back, silent, revoked, printed>>

-------------------------------------------------------------------------------
(* Faults *)

GoSilent(s) ==
    /\ s \in Silent \ silent /\ silent' = silent \cup {s}
    /\ UNCHANGED <<bound, sender, task, conn, toward, back, revoked, printed>>

\* A connection breaks: by itself, or because one side is silent or has returned
Breaks(s) ==
    /\ conn[s] = "up" /\ conn' = [conn EXCEPT ![s] = "down"]
    /\ UNCHANGED <<bound, sender, task, toward, back, silent, revoked, printed>>

Revoke(a) ==
    /\ a \notin revoked /\ revoked' = revoked \cup {a}
    /\ UNCHANGED <<bound, sender, task, conn, toward, back, silent, printed>>

-------------------------------------------------------------------------------
TaskStep(s) ==
    \/ AcceptPeer(s) \/ AcceptBi(s) \/ ReadHello(s) \/ Rejected(s) \/ HandshakeTimeout(s)
    \/ LiveChecked(s) \/ ReadEnvelope(s) \/ EnvelopeError(s)

SenderStep(s) ==
    \/ \E found \in BOOLEAN : Route(s, found)
    \/ SendHello(s) \/ ReadAnswer(s) \/ SendEnvelope(s) \/ Stopped(s) \/ SendGivesUp(s)

OneShotNext ==
    \/ \E works \in BOOLEAN : BindAttempt(works)
    \/ ListenEnds
    \/ \E s \in Senders : TaskStep(s) \/ SenderStep(s) \/ GoSilent(s) \/ Breaks(s)
    \/ \E a \in Senders \cup {Listener} : Revoke(a)

\* Tasks and commands are scheduled, and a deadline fires.  That a connection breaks is not
\* promised.  `on`: this component is the one that runs.
OneShotFairness ==
    \A s \in Senders : WF_oneShotVars(TaskStep(s)) /\ WF_oneShotVars(SenderStep(s))

OneShotSpec == OneShotInit /\ [][OneShotNext]_oneShotVars /\ OneShotFairness

-------------------------------------------------------------------------------
(* Properties *)

\* What is printed was sent, by a peer that stood when its envelope was taken, although it
\* was looked at twice before: nothing goes through on the word of the exchange.  And no
\* send of another user's reports success.  (recv_envelope, LiveCheck::admit, the reject of
\* do_handshake, send's wait for `stopped`.)
PrintedStands ==
    /\ \A r \in printed : r[2] /\ r[1] \notin Strangers /\ sender[r[1]] \in {"stopped", "ok", "failed"}
    /\ \A s \in Senders \cap Strangers : sender[s] # "ok"

\* Nobody waits for good: once a sender's Hello is on its way to a listener that takes
\* connections, the listener decides within its deadline, and a sender that has not gone
\* silent returns.  (handle_one's timeout, the reject's finish, send's wait for `stopped`.)
ExchangeEnds ==
    \A s \in Senders :
        /\ task[s] \in {"hello", "reject"} ~> task[s] \notin {"hello", "reject"}
        /\ (sender[s] = "answer" /\ task[s] # "none") ~> (sender[s] \in {"ok", "failed"} \/ s \in silent)

===============================================================================
