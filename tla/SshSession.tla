------------------------------- MODULE SshSession ------------------------------
(***************************************************************************)
(* The authenticated mesh session inside one SSH channel                   *)
(* (agent-mesh-transport-ssh session.rs): the two flights of the           *)
(* handshake, and the signed, counted records that follow.                 *)
(*                                                                         *)
(* A frame crosses the carrier in Size pieces and the carrier buffers      *)
(* Window of them, so a write may wait for the peer to read, and a write   *)
(* given up between two pieces leaves the first of them on the stream.     *)
(* Signatures are unforgeable: a proof or a record is the term it signs.   *)
(* Each end keeps its own copy of the user's revocation log, which may     *)
(* grow at any moment (the log itself is in Revocation).                   *)
(***************************************************************************)
EXTENDS Integers, Sequences, SequencesExt

CONSTANTS
    Size,       \* pieces of a frame
    Window,     \* pieces the carrier holds in one direction
    Wanted,     \* the agent the initiator means to reach
    Sibling,    \* another agent of the same user
    Caller,     \* the agent that initiates
    Root,       \* the agent that delegated to Caller
    Lasting,    \* agents whose certificates outlive a generation bump
    MaxSends,   \* bound on the envelopes an end sends
    MaxLog      \* bound on the length of a revocation log

ASSUME SshAssumption ==
    /\ Size \in Nat \ {0} /\ Window \in Nat \ {0}
    /\ MaxSends \in Nat /\ MaxLog \in Nat

Ends == {"initiator", "responder"}
Opposite(e) == IF e = "initiator" THEN "responder" ELSE "initiator"
NoFrame == [kind |-> "none"]
NoAgent == "none"

VARIABLES
    who,       \* the agent at each end
    log,       \* each end's revocation log: its length, generation and revoked agents
    phase,     \* how far each end is
    state,     \* the RevocationState each end's handshake runs against
    peer,      \* the Hello each end accepted
    out,       \* the frame each end is writing and the pieces still to write
    pipe,      \* the pieces on the carrier from each end, oldest first
    inb,       \* the pieces each end has read of the present frame
    reading,   \* whether a record read is under way
    sendCounter, recvCounter, sendPoisoned, recvPoisoned,
    live,      \* LiveCheck.state: the log length last passed, or 0 once refused
    \* history
    fault,     \* whether a deadline or a cancellation struck
    tried,     \* envelopes each end began to send
    got        \* envelopes each end handed on

trust == <<who, log>>
shake == <<phase, state, peer>>
halves == <<sendCounter, recvCounter, sendPoisoned, recvPoisoned, live, reading>>
tally == <<tried, got>>
sshVars == <<trust, shake, out, pipe, inb, halves, fault, tally>>

Idle == [frame |-> NoFrame, left |-> 0]

\* The links of an agent's certificate chain.
Links(a) == IF a = Caller THEN {Caller, Root} ELSE {a}

\* CertChain::verify_with: no link is revoked, and the chain is valid at the
\* generation the log has reached.
VerifyWith(a, s) ==
    /\ Links(a) \intersect s.revoked = {}
    /\ s.generation = 0 \/ a \in Lasting

SshInit ==
    /\ who \in {[e \in Ends |-> IF e = "initiator" THEN Caller ELSE r] : r \in {Wanted, Sibling}}
    /\ log = [e \in Ends |-> [len |-> 1, generation |-> 0, revoked |-> {}]]
    /\ phase = [e \in Ends |-> "start"]
    /\ state = log
    /\ peer = [e \in Ends |-> NoFrame]
    /\ out = [e \in Ends |-> Idle]
    /\ pipe = [e \in Ends |-> <<>>]
    /\ inb = [e \in Ends |-> <<>>]
    /\ reading = [e \in Ends |-> FALSE]
    /\ sendCounter = [e \in Ends |-> 0] /\ recvCounter = [e \in Ends |-> 0]
    /\ sendPoisoned = [e \in Ends |-> FALSE] /\ recvPoisoned = [e \in Ends |-> FALSE]
    /\ live = [e \in Ends |-> 0]
    /\ fault = FALSE
    /\ tried = [e \in Ends |-> <<>>] /\ got = [e \in Ends |-> <<>>]

-------------------------------------------------------------------------------
(* The carrier *)

Piece(f, k) == [frame |-> f, k |-> k]

\* The frame that the pieces read make up: another one when they do not belong
\* together, and then no header, length or signature fits.
Assembled(ps) ==
    IF \A k \in 1..Size : ps[k] = Piece(ps[1].frame, k) THEN ps[1].frame ELSE NoFrame

Write(e) ==
    /\ out[e].left > 0
    /\ Len(pipe[e]) < Window
    /\ phase[Opposite(e)] # "ended"
    /\ pipe' = [pipe EXCEPT ![e] =
                  Append(@, Piece(out[e].frame, Size - out[e].left + 1))]
    /\ out' = [out EXCEPT ![e].left = @ - 1]
    /\ UNCHANGED <<trust, shake, inb, halves, fault, tally>>

\* A plausible bug: a flight is written whole before the peer's is read.
ReadsInTurn(e) == phase[e] \in {"hello", "proof"} /\ out[e].left = 0

\* exchange_auth_frame reads the peer's flight while its own is being written;
\* a record is read when one is being received.
Reads(e) == phase[e] \in {"hello", "proof"} \/ reading[e]

Read(e) ==
    /\ Reads(e)
    /\ Len(inb[e]) < Size
    /\ pipe[Opposite(e)] # <<>>
    /\ inb' = [inb EXCEPT ![e] = Append(@, Head(pipe[Opposite(e)]))]
    /\ pipe' = [pipe EXCEPT ![Opposite(e)] = Tail(@)]
    /\ UNCHANGED <<trust, shake, out, halves, fault, tally>>

\* The end drops both halves: nothing more is written, and the peer reads on to
\* the end of what is on the carrier.
LetGo(e) ==
    /\ phase' = [phase EXCEPT ![e] = "ended"]
    /\ out' = [out EXCEPT ![e] = Idle]
    /\ inb' = [inb EXCEPT ![e] = <<>>]
    /\ reading' = [reading EXCEPT ![e] = FALSE]

Ended(e) ==
    /\ LetGo(e)
    /\ UNCHANGED <<trust, state, peer, pipe, sendCounter, recvCounter, sendPoisoned,
                   recvPoisoned, live, tally>>

-------------------------------------------------------------------------------
(* The handshake *)

Hello(e) ==
    [kind |-> "hello", role |-> e, cert |-> who[e], generation |-> state'[e].generation,
     expected |-> IF e = "initiator" THEN Wanted ELSE NoAgent]

\* authenticate_inner: the local log decides the generation; the local identity
\* must stand in it; the Hello goes out.
Start(e) ==
    /\ phase[e] = "start"
    /\ IF VerifyWith(who[e], log[e])
       THEN /\ state' = [state EXCEPT ![e] = log[e]]
            /\ phase' = [phase EXCEPT ![e] = "hello"]
            /\ out' = [out EXCEPT ![e] = [frame |-> Hello(e), left |-> Size]]
            /\ UNCHANGED <<trust, peer, pipe, inb, halves, fault, tally>>
       ELSE Ended(e) /\ UNCHANGED fault

\* A plausible bug: the parameters of the two Hellos are not compared.
ValidateLoosely(e, h) ==
    /\ h.kind = "hello"
    /\ h.role = Opposite(e)
    /\ IF e = "initiator" THEN h.expected = NoAgent /\ h.cert = Wanted
                          ELSE h.expected = who[e]
    /\ VerifyWith(h.cert, state[e])

\* validate_peer_hello: the other role, the same parameters (generation
\* included), the responder that was meant, and a chain that stands in the log.
ValidatePeerHello(e, h) ==
    /\ h.kind = "hello"
    /\ h.role = Opposite(e)
    /\ h.generation = state[e].generation
    /\ IF e = "initiator" THEN h.expected = NoAgent /\ h.cert = Wanted
                          ELSE h.expected = who[e]
    /\ VerifyWith(h.cert, state[e])

\* Both Hellos in the order of the roles.
TranscriptId(e, own, theirs) ==
    IF e = "initiator" THEN <<own, theirs>> ELSE <<theirs, own>>

Proof(role, id) == [kind |-> "proof", role |-> role, id |-> id]

FlightDone(e, p) == phase[e] = p /\ out[e].left = 0 /\ Len(inb[e]) = Size

HelloRead(e) ==
    /\ FlightDone(e, "hello")
    /\ LET h == Assembled(inb[e])
           own == out[e].frame
       IN IF ValidatePeerHello(e, h)
          THEN /\ peer' = [peer EXCEPT ![e] = h]
               /\ phase' = [phase EXCEPT ![e] = "proof"]
               /\ out' = [out EXCEPT ![e] =
                    [frame |-> Proof(e, TranscriptId(e, own, h)), left |-> Size]]
               /\ inb' = [inb EXCEPT ![e] = <<>>]
               /\ UNCHANGED <<trust, state, pipe, halves, fault, tally>>
          ELSE Ended(e) /\ UNCHANGED fault

\* verify_peer_proof, the sole place a peer is authenticated; then LiveCheck::new
\* looks at the log once more, which may have moved since the handshake began.
ProofRead(e) ==
    /\ FlightDone(e, "proof")
    /\ IF /\ Assembled(inb[e]) = Proof(Opposite(e), out[e].frame.id)
          /\ VerifyWith(peer[e].cert, log[e])
       THEN /\ phase' = [phase EXCEPT ![e] = "open"]
            /\ live' = [live EXCEPT ![e] = log[e].len]
            /\ out' = [out EXCEPT ![e] = Idle]
            /\ inb' = [inb EXCEPT ![e] = <<>>]
            /\ UNCHANGED <<trust, state, peer, pipe, sendCounter, recvCounter,
                           sendPoisoned, recvPoisoned, reading, fault, tally>>
       ELSE Ended(e) /\ UNCHANGED fault

\* The deadline for both flights passes, or the caller is cancelled.
AuthenticationTimeout(e) ==
    /\ phase[e] \in {"start", "hello", "proof"}
    /\ fault' = TRUE
    /\ Ended(e)

\* A read or a write fails because the peer has let go of the carrier.
AuthenticationCut(e) ==
    /\ phase[e] \in {"hello", "proof"}
    /\ phase[Opposite(e)] = "ended"
    /\ out[e].left > 0 \/ (pipe[Opposite(e)] = <<>> /\ Len(inb[e]) < Size)
    /\ Ended(e) /\ UNCHANGED fault

-------------------------------------------------------------------------------
(* Records *)

\* LiveCheck::admit: the log is read each time, the chain checked again when its
\* head moved; a refusal is for good.
LiveAdmits(e) == live[e] # 0 /\ (log[e].len = live[e] \/ VerifyWith(peer[e].cert, log[e]))
Admitted(e) == live' = [live EXCEPT ![e] = log[e].len]
Refused(e) == live' = [live EXCEPT ![e] = 0]

\* The transcript id of a record is left out: there is one session here.
Record(e, n, m) == [kind |-> "record", from |-> e, counter |-> n, msg |-> m]

SendEnvelope(e) ==
    /\ phase[e] = "open" /\ out[e] = Idle
    /\ ~sendPoisoned[e]
    /\ Len(tried[e]) < MaxSends
    /\ IF LiveAdmits(e)
       THEN LET m == Len(tried[e]) + 1
            IN /\ Admitted(e)
               /\ out' = [out EXCEPT ![e] =
                    [frame |-> Record(e, sendCounter[e] + 1, m), left |-> Size]]
               /\ tried' = [tried EXCEPT ![e] = Append(@, m)]
               /\ UNCHANGED sendPoisoned
       ELSE /\ Refused(e)
            /\ sendPoisoned' = [sendPoisoned EXCEPT ![e] = TRUE]
            /\ UNCHANGED <<out, tried>>
    /\ UNCHANGED <<trust, shake, pipe, inb, sendCounter, recvCounter, recvPoisoned,
                   reading, fault, got>>

RecordSent(e) ==
    /\ phase[e] = "open" /\ out[e].frame.kind = "record" /\ out[e].left = 0
    /\ sendCounter' = [sendCounter EXCEPT ![e] = @ + 1]
    /\ out' = [out EXCEPT ![e] = Idle]
    /\ UNCHANGED <<trust, shake, pipe, inb, recvCounter, sendPoisoned, recvPoisoned,
                   live, reading, fault, tally>>

\* A plausible bug: a write given up does not poison the half.
SendForgets(e) ==
    /\ phase[e] = "open" /\ out[e].frame.kind = "record"
    /\ out' = [out EXCEPT ![e] = Idle]
    /\ fault' = TRUE
    /\ UNCHANGED <<trust, shake, pipe, inb, halves, tally>>

\* The write fails, runs past its deadline or is cancelled: PoisonOnIncompleteRecord
\* leaves the half unusable, for an unknown part of the record may be on the carrier.
SendGivenUp(e) ==
    /\ phase[e] = "open" /\ out[e].frame.kind = "record"
    /\ out' = [out EXCEPT ![e] = Idle]
    /\ sendPoisoned' = [sendPoisoned EXCEPT ![e] = TRUE]
    /\ fault' = TRUE
    /\ UNCHANGED <<trust, shake, pipe, inb, sendCounter, recvCounter, recvPoisoned,
                   live, reading, tally>>

RecvEnvelope(e) ==
    /\ phase[e] = "open" /\ ~reading[e]
    /\ ~recvPoisoned[e]
    /\ reading' = [reading EXCEPT ![e] = TRUE]
    /\ UNCHANGED <<trust, shake, out, pipe, inb, sendCounter, recvCounter, sendPoisoned,
                   recvPoisoned, live, fault, tally>>

\* read_record: of this session, in this direction, with exactly the next counter.
Acceptable(e, f) ==
    f.kind = "record" /\ f.from = Opposite(e) /\ f.counter = recvCounter[e] + 1

\* A plausible bug: the peer is checked before the record is read, not after.
HandOnUnchecked(e) ==
    /\ reading[e] /\ Len(inb[e]) = Size
    /\ reading' = [reading EXCEPT ![e] = FALSE]
    /\ inb' = [inb EXCEPT ![e] = <<>>]
    /\ LET f == Assembled(inb[e])
       IN IF Acceptable(e, f)
          THEN /\ recvCounter' = [recvCounter EXCEPT ![e] = @ + 1]
               /\ got' = [got EXCEPT ![e] = Append(@, f.msg)]
               /\ UNCHANGED recvPoisoned
          ELSE /\ recvPoisoned' = [recvPoisoned EXCEPT ![e] = TRUE]
               /\ UNCHANGED <<recvCounter, got>>
    /\ UNCHANGED <<trust, shake, out, pipe, sendCounter, sendPoisoned, live, fault, tried>>

\* receive_authenticated_record ends; the peer is checked against the log after
\* the record is in and before its envelope is handed on.
RecordRead(e) ==
    /\ reading[e] /\ Len(inb[e]) = Size
    /\ reading' = [reading EXCEPT ![e] = FALSE]
    /\ inb' = [inb EXCEPT ![e] = <<>>]
    /\ LET f == Assembled(inb[e])
       IN \/ /\ Acceptable(e, f) /\ LiveAdmits(e)
             /\ recvCounter' = [recvCounter EXCEPT ![e] = @ + 1]
             /\ Admitted(e)
             /\ got' = [got EXCEPT ![e] = Append(@, f.msg)]
             /\ UNCHANGED recvPoisoned
          \/ /\ Acceptable(e, f) /\ ~LiveAdmits(e)
             /\ recvCounter' = [recvCounter EXCEPT ![e] = @ + 1]
             /\ Refused(e)
             /\ recvPoisoned' = [recvPoisoned EXCEPT ![e] = TRUE]
             /\ UNCHANGED got
          \/ /\ ~Acceptable(e, f)
             /\ recvPoisoned' = [recvPoisoned EXCEPT ![e] = TRUE]
             /\ UNCHANGED <<recvCounter, live, got>>
    /\ UNCHANGED <<trust, shake, out, pipe, sendCounter, sendPoisoned, fault, tried>>

\* A read that is cut, cancelled or past its deadline poisons its half too.
RecvGivenUp(e) ==
    /\ reading[e]
    /\ reading' = [reading EXCEPT ![e] = FALSE]
    /\ inb' = [inb EXCEPT ![e] = <<>>]
    /\ recvPoisoned' = [recvPoisoned EXCEPT ![e] = TRUE]
    /\ fault' = TRUE
    /\ UNCHANGED <<trust, shake, out, pipe, sendCounter, recvCounter, sendPoisoned, live,
                   tally>>

\* The owner of an open session drops it.
HangUp(e) == phase[e] = "open" /\ Ended(e) /\ UNCHANGED fault

-------------------------------------------------------------------------------
(* The log of an end's host *)

Revoke(e, a) ==
    /\ log[e].len < MaxLog
    /\ log' = [log EXCEPT ![e] = [len |-> @.len + 1, generation |-> @.generation,
                                  revoked |-> @.revoked \union {a}]]
    /\ UNCHANGED <<who, shake, out, pipe, inb, halves, fault, tally>>

BumpGeneration(e) ==
    /\ log[e].len < MaxLog
    /\ log' = [log EXCEPT ![e] = [len |-> @.len + 1, generation |-> @.generation + 1,
                                  revoked |-> @.revoked]]
    /\ UNCHANGED <<who, shake, out, pipe, inb, halves, fault, tally>>

Step(e) ==
    \/ Start(e) \/ Write(e) \/ Read(e) \/ HelloRead(e) \/ ProofRead(e)
    \/ AuthenticationCut(e)

SshNext ==
    \E e \in Ends :
        \/ Step(e)
        \/ AuthenticationTimeout(e)
        \/ SendEnvelope(e) \/ RecordSent(e) \/ SendGivenUp(e)
        \/ RecvEnvelope(e) \/ RecordRead(e) \/ RecvGivenUp(e)
        \/ HangUp(e)
        \/ \E a \in {Root, Wanted} : Revoke(e, a)
        \/ BumpGeneration(e)

SshSpec == SshInit /\ [][SshNext]_sshVars

-------------------------------------------------------------------------------
(* Properties *)

\* When both ends are open, each authenticated the other: the initiator the agent
\* it meant, the responder the caller, and both handshakes ran at one generation.
\* The two logs are separate files and move between the steps of the handshake.
PeersAgree ==
    (\A e \in Ends : phase[e] = "open") =>
        /\ who["responder"] = Wanted
        /\ \A e \in Ends : peer[e].cert = who[Opposite(e)]
        /\ state["initiator"].generation = state["responder"].generation

\* What an end hands on is what the other began to send, in order and with nothing
\* left out before it, however often a write is given up half-way.
NoGap == \A e \in Ends : IsPrefix(got[e], tried[Opposite(e)])

\* The two ends of a session agree on who is at the other and on what was said.
SshEndsAgree == PeersAgree /\ NoGap

\* No envelope is handed on once the log of the receiving host has refused its
\* sender, even when the read began before and the record was already on its way.
RevokedPeerIsSilent ==
    [][\A e \in Ends : got'[e] # got[e] => VerifyWith(who[Opposite(e)], log[e])]_sshVars

\* Short of a deadline, the handshake is never stuck before both ends have an answer: the
\* two flights cannot wait for each other on a carrier that holds less than a frame.  (Every
\* step takes a frame further, so there is no going round in circles either.)
HandshakeNeverStuck ==
    \/ fault
    \/ \A e \in Ends : phase[e] \in {"open", "ended"}
    \/ \E e \in Ends : ENABLED Step(e)

===============================================================================
