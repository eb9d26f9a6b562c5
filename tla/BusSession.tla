------------------------------- MODULE BusSession ------------------------------
(***************************************************************************)
(* One session stream between an opener and a responder                    *)
(* (agent-mesh-bus session.rs): opening and the responder's verdict,       *)
(* full-duplex data, keepalives, cancelled sends, clean close, failure     *)
(* and the shutdown of either bus.                                         *)
(*                                                                         *)
(* A frame is written under the writer's lock in two steps, so that a send *)
(* can be abandoned between them: by cancellation, by the bus closing or   *)
(* by a transport error.  What the peer then finds on the stream is        *)
(* nothing, part of the frame, or all of it.  The keepalive task shares    *)
(* the writer.  The stream delivers in order; its flow control admits      *)
(* Window frames ahead of the reader.                                      *)
(*                                                                         *)
(* Admission of every frame (inbox::admit) is in BusInbox: here the two    *)
(* ends are the authenticated pair, and each runs this code.               *)
(***************************************************************************)
EXTENDS Integers, Sequences, SequencesExt

CONSTANTS
    Window,        \* frames that fit on the stream ahead of the reader
    MaxData,       \* bound on the messages the applications send
    MaxKeepalive   \* bound on the keepalives of both ends

ASSUME SessionAssumption ==
    Window \in Nat \ {0} /\ MaxData \in Nat /\ MaxKeepalive \in Nat

Sides == {"opener", "responder"}
Other(s) == IF s = "opener" THEN "responder" ELSE "opener"

VARIABLES
    phase,     \* how far each end is
    halves,    \* which halves of its session each end still holds
    holder,    \* who holds the writer's lock and is in a write
    body,      \* the body of the frame being written
    intact,    \* Writer.intact
    wnext,     \* Writer.next_seq
    pipe,      \* the frames on the stream from each end, oldest first
    ended,     \* whether each end has finished or dropped its stream
    rnext,     \* SessionReceiver.next_seq
    closed,    \* SessionReceiver.closed
    failed,    \* why the receiver failed, or "no"
    beating,   \* whether each end's keepalive task still runs
    closing,   \* whether the responder's bus is closing
    served,    \* whether the topic the opener asked for has a handler
    stopped,   \* whether the responder's Bus::close has returned
    \* history
    beats,     \* keepalives begun
    sent,      \* data each application tried to send
    got        \* data each application received

writer == <<holder, body, intact, wnext>>
reader == <<rnext, closed, failed>>
life == <<phase, halves, beating>>
bus == <<closing, served, stopped>>
vars == <<life, writer, pipe, ended, reader, bus, beats, sent, got>>

Init ==
    /\ phase = [s \in Sides |-> "none"]
    /\ halves = [s \in Sides |-> {}]
    /\ holder = [s \in Sides |-> "free"]
    /\ body = [s \in Sides |-> "none"]
    /\ intact = [s \in Sides |-> TRUE]
    /\ wnext = [s \in Sides |-> 0]
    /\ pipe = [s \in Sides |-> <<>>]
    /\ ended = [s \in Sides |-> FALSE]
    /\ rnext = [s \in Sides |-> 0]
    /\ closed = [s \in Sides |-> FALSE]
    /\ failed = [s \in Sides |-> "no"]
    /\ beating = [s \in Sides |-> FALSE]
    /\ closing = FALSE
    /\ served \in BOOLEAN
    /\ stopped = FALSE
    /\ beats = 0
    /\ sent = [s \in Sides |-> <<>>]
    /\ got = [s \in Sides |-> <<>>]

\* Whether the bus of s is known to be closing.  That of the opener may close as
\* well, but does nothing then that is not possible at any time: its writes are
\* abandoned and its reads fail.
Closing(s) == s = "responder" /\ closing

\* The frame of a body from s; what distinguishes a data frame is which of the
\* application's messages it carries.
FrameOf(s, n, b) ==
    [seq |-> n, body |-> b, msg |-> IF b = "data" THEN Len(sent[s]) ELSE 0]

\* The part of a frame that an abandoned write leaves.
Torn == [seq |-> -1, body |-> "torn", msg |-> 0]

-------------------------------------------------------------------------------
(* Writing a frame *)

\* A plausible bug: Writer.intact is not looked at.
BeginAnyway(s, who, b) ==
    /\ holder[s] = "free"
    /\ holder' = [holder EXCEPT ![s] = who]
    /\ body' = [body EXCEPT ![s] = b]
    /\ intact' = [intact EXCEPT ![s] = FALSE]
    /\ UNCHANGED wnext

\* Writer::write takes the lock, refuses to follow a torn frame, and marks the
\* stream torn for as long as the frame is under way.
Begin(s, who, b) ==
    /\ holder[s] = "free"
    /\ intact[s]
    /\ holder' = [holder EXCEPT ![s] = who]
    /\ body' = [body EXCEPT ![s] = b]
    /\ intact' = [intact EXCEPT ![s] = FALSE]
    /\ UNCHANGED wnext

\* Where an end is once the frame it wrote itself is out.
Written(s) ==
    CASE body[s] = "open"   -> "waiting"
      [] body[s] = "accept" -> "open"
      [] body[s] = "refuse" -> "refused"
      [] body[s] = "close"  -> "finishing"
      [] OTHER -> phase[s]

\* The frame is written and flushed, when the stream has room.
EndWrite(s) ==
    /\ holder[s] # "free"
    /\ Len(pipe[s]) < Window
    /\ pipe' = [pipe EXCEPT ![s] = Append(@, FrameOf(s, wnext[s], body[s]))]
    /\ wnext' = [wnext EXCEPT ![s] = @ + 1]
    /\ intact' = [intact EXCEPT ![s] = TRUE]
    /\ holder' = [holder EXCEPT ![s] = "free"] /\ body' = [body EXCEPT ![s] = "none"]
    /\ phase' = [phase EXCEPT ![s] = IF holder[s] = "app" THEN Written(s) ELSE @]
    /\ UNCHANGED <<halves, beating, ended, reader, bus, beats, sent, got>>

\* What an abandoned write may leave on the stream: nothing, a part of the
\* frame, or all of it.
Remains(s) ==
    {pipe[s]} \union
      (IF holder[s] # "free" /\ Len(pipe[s]) < Window
       THEN {Append(pipe[s], Torn), Append(pipe[s], FrameOf(s, wnext[s], body[s]))}
       ELSE {})

\* The stream from s becomes one of the given contents.
Leaves(s, contents) == \E c \in contents : pipe' = [pipe EXCEPT ![s] = c]

\* Dropping everything an end holds of the session: the keepalive is aborted
\* and the stream ends for the peer.
LetGo(s) ==
    /\ phase' = [phase EXCEPT ![s] = "gone"]
    /\ halves' = [halves EXCEPT ![s] = {}]
    /\ beating' = [beating EXCEPT ![s] = FALSE]
    /\ ended' = [ended EXCEPT ![s] = TRUE]

\* Dropping one half; the last one takes the rest with it.
LetGoHalf(s, h) ==
    IF halves[s] \subseteq {h}
    THEN LetGo(s)
    ELSE /\ halves' = [halves EXCEPT ![s] = @ \ {h}]
         /\ UNCHANGED <<phase, beating, ended>>

\* A plausible bug: Writer.intact is only cleared by a failed write.
AbandonIntact(s) ==
    /\ holder[s] = "app" /\ body[s] = "data"
    /\ Leaves(s, Remains(s))
    /\ holder' = [holder EXCEPT ![s] = "free"] /\ body' = [body EXCEPT ![s] = "none"]
    /\ intact' = [intact EXCEPT ![s] = TRUE]
    /\ UNCHANGED <<life, ended, wnext, reader, bus, beats, sent, got>>

\* A send is cancelled mid-frame, the bus closes under it (the biased select
\* of SessionSender::write) or the stream fails: the session no longer sends.
\* Without its opening frame or its verdict there is no session, a goodbye
\* consumes the sender, and a keepalive task ends with its first failure.
AbandonWrite(s) ==
    /\ holder[s] # "free"
    /\ Leaves(s, Remains(s))
    /\ holder' = [holder EXCEPT ![s] = "free"] /\ body' = [body EXCEPT ![s] = "none"]
    /\ CASE holder[s] = "keepalive" ->
                /\ beating' = [beating EXCEPT ![s] = FALSE]
                /\ UNCHANGED <<phase, halves, ended>>
         [] holder[s] = "app" /\ body[s] \in {"open", "accept", "refuse"} ->
                LetGo(s)
         [] holder[s] = "app" /\ body[s] = "close" ->
                LetGoHalf(s, "tx")
         [] OTHER -> UNCHANGED <<life, ended>>
    /\ UNCHANGED <<intact, wnext, reader, bus, beats, sent, got>>

-------------------------------------------------------------------------------
(* Opening *)

\* halves(): both halves, and the keepalive task, from the start.
Halves(s) ==
    /\ halves' = [halves EXCEPT ![s] = {"tx", "rx"}]
    /\ beating' = [beating EXCEPT ![s] = TRUE]

\* Session::initiate: send the open frame.
Initiate ==
    /\ phase["opener"] = "none"
    /\ Halves("opener")
    /\ Begin("opener", "app", "open")
    /\ phase' = [phase EXCEPT !["opener"] = "opening"]
    /\ UNCHANGED <<pipe, ended, reader, bus, beats, sent, got>>

\* The receive loop finds an open frame, its sender's frame 0, and
\* IncomingSession::admit makes both halves, reading on from frame 1.
Admit ==
    /\ phase["responder"] = "none" /\ ~closing
    /\ pipe["opener"] # <<>> /\ Head(pipe["opener"]).body = "open"
    /\ Head(pipe["opener"]).seq = 0
    /\ pipe' = [pipe EXCEPT !["opener"] = Tail(@)]
    /\ rnext' = [rnext EXCEPT !["responder"] = 1]
    /\ phase' = [phase EXCEPT !["responder"] = "deciding"]
    /\ Halves("responder")
    /\ UNCHANGED <<writer, ended, closed, failed, bus, beats, sent, got>>

\* The handler accepts or refuses, whenever it likes; the dispatcher refuses
\* at once when the topic has no handler.
Decide(verdict) ==
    /\ phase["responder"] = "deciding" /\ ~closing
    /\ verdict = "accept" => served
    /\ Begin("responder", "app", verdict)
    /\ phase' = [phase EXCEPT !["responder"] = "judging"]
    /\ UNCHANGED <<halves, beating, pipe, ended, reader, bus, beats, sent, got>>

-------------------------------------------------------------------------------
(* The established session *)

\* SessionSender::send; it fails at once when the bus is closing.
Send(s) ==
    /\ phase[s] = "open" /\ "tx" \in halves[s] /\ ~Closing(s)
    /\ Len(sent["opener"]) + Len(sent["responder"]) < MaxData
    /\ Begin(s, "app", "data")
    /\ sent' = [sent EXCEPT ![s] = Append(@, Len(@) + 1)]
    /\ UNCHANGED <<life, pipe, ended, reader, bus, beats, got>>

\* SessionSender::close says goodbye.
SayGoodbye(s) ==
    /\ phase[s] = "open" /\ "tx" \in halves[s] /\ ~Closing(s)
    /\ Begin(s, "app", "close")
    /\ phase' = [phase EXCEPT ![s] = "leaving"]
    /\ UNCHANGED <<halves, beating, pipe, ended, reader, bus, beats, sent, got>>

\* close_stream, once the lock is free again: nothing may be written after.
\* It consumes the sender, and with a refusal the receiver too.
CloseStream(s) ==
    /\ phase[s] \in {"finishing", "refused"}
    /\ holder[s] = "free"
    /\ intact' = [intact EXCEPT ![s] = FALSE]
    /\ IF phase[s] = "refused" \/ halves[s] = {"tx"}
       THEN LetGo(s)
       ELSE /\ phase' = [phase EXCEPT ![s] = "closed"]
            /\ halves' = [halves EXCEPT ![s] = {"rx"}]
            /\ ended' = [ended EXCEPT ![s] = TRUE]
            /\ UNCHANGED beating
    /\ UNCHANGED <<holder, body, wnext, pipe, reader, bus, beats, sent, got>>

\* spawn_keepalive: write one when the writer is not busy.
Beat(s) ==
    /\ beating[s] /\ beats < MaxKeepalive
    /\ Begin(s, "keepalive", "keepalive")
    /\ beats' = beats + 1
    /\ UNCHANGED <<life, pipe, ended, reader, bus, sent, got>>

\* Its write is refused: the task ends.
BeatFails(s) ==
    /\ beating[s] /\ holder[s] = "free" /\ ~intact[s]
    /\ beating' = [beating EXCEPT ![s] = FALSE]
    /\ UNCHANGED <<phase, halves, writer, pipe, ended, reader, bus, beats, sent, got>>

\* Whoever awaits the next frame: the opener its verdict, an application data.
Reading(s) ==
    /\ phase[s] \in {"waiting", "open", "leaving", "finishing", "closed"}
    /\ "rx" \in halves[s]
    /\ ~closed[s] /\ failed[s] = "no"

\* The receiver fails for good; an open that fails is dropped.
Fail(s, why) ==
    /\ failed' = [failed EXCEPT ![s] = why]
    /\ IF phase[s] = "waiting" THEN LetGo(s) ELSE UNCHANGED <<life, ended>>
    /\ UNCHANGED <<closed, got>>

\* A plausible bug: any frame but a refusal opens the session.
TakeAnyVerdict(s, f) ==
    IF f.body = "refuse"
    THEN Fail(s, "refused")
    ELSE /\ phase' = [phase EXCEPT ![s] = "open"]
         /\ UNCHANGED <<halves, beating, ended, closed, failed, got>>

\* Session::initiate: the first frame of the responder.
TakeVerdict(s, f) ==
    CASE f.body = "accept" ->
            /\ phase' = [phase EXCEPT ![s] = "open"]
            /\ UNCHANGED <<halves, beating, ended, closed, failed, got>>
      [] f.body = "refuse" -> Fail(s, "refused")
      [] f.body = "keepalive" -> Fail(s, "keepalive")
      [] OTHER -> Fail(s, "unexpected")

\* SessionReceiver::recv.
TakeFrame(s, f) ==
    CASE f.body = "data" ->
            /\ got' = [got EXCEPT ![s] = Append(@, f.msg)]
            /\ UNCHANGED <<life, ended, closed, failed>>
      [] f.body = "keepalive" -> UNCHANGED <<life, ended, closed, failed, got>>
      [] f.body = "close" ->
            /\ closed' = [closed EXCEPT ![s] = TRUE]
            /\ UNCHANGED <<life, ended, failed, got>>
      [] OTHER -> Fail(s, "unexpected")

\* next_frame: a whole frame must be exactly the next of its direction.  A torn
\* one that runs into the bytes of another is no envelope.
Recv(s) ==
    LET f == Head(pipe[Other(s)])
    IN  /\ Reading(s) /\ ~Closing(s)
        /\ pipe[Other(s)] # <<>>
        /\ f = Torn => Len(pipe[Other(s)]) > 1
        /\ pipe' = [pipe EXCEPT ![Other(s)] = Tail(@)]
        /\ CASE f = Torn -> Fail(s, "garbage") /\ UNCHANGED rnext
             [] f # Torn /\ f.seq # rnext[s] ->
                    Fail(s, "sequence") /\ UNCHANGED rnext
             [] OTHER ->
                    /\ rnext' = [rnext EXCEPT ![s] = @ + 1]
                    /\ IF phase[s] = "waiting"
                       THEN TakeVerdict(s, f) ELSE TakeFrame(s, f)
        /\ UNCHANGED <<writer, bus, beats, sent>>

\* The bus is closing, nothing came within the idle window, the stream ended
\* without a goodbye, or the connection is lost.
RecvFails(s) ==
    /\ Reading(s)
    /\ Fail(s, "lost")
    /\ UNCHANGED <<writer, pipe, rnext, bus, beats, sent>>

\* The application drops one half of a split session.
DropHalf(s, h) ==
    /\ phase[s] = "open" /\ halves[s] = {"tx", "rx"}
    /\ h = "tx" => holder[s] # "app"
    /\ LetGoHalf(s, h)
    /\ UNCHANGED <<writer, pipe, reader, bus, beats, sent, got>>

\* The application drops all it holds, in the middle of a write or not: an
\* open given up, a session left undecided, a handler that returns.
Drop(s) ==
    /\ phase[s] \notin {"none", "gone"}
    /\ s = "responder" => served
    /\ LetGo(s)
    /\ Leaves(s, Remains(s))
    /\ holder' = [holder EXCEPT ![s] = "free"] /\ body' = [body EXCEPT ![s] = "none"]
    /\ UNCHANGED <<intact, wnext, reader, bus, beats, sent, got>>

-------------------------------------------------------------------------------
(* Closing a bus *)

\* The responder's Bus::close drops the shutdown sender.
Shutdown ==
    /\ ~closing
    /\ closing' = TRUE
    /\ UNCHANGED <<life, writer, pipe, ended, reader, served, stopped, beats, sent, got>>

\* A plausible bug: the dispatcher waits for the handler however long it takes.
GraceNeverExpires == FALSE /\ UNCHANGED vars

\* SessionHandlers::dispatch: a handler still running when the grace is up is
\* cancelled, and drops its session.
GraceExpires ==
    /\ closing /\ served
    /\ Drop("responder")

\* The dispatcher's own refusal fails, as the bus closes or because a keepalive
\* was abandoned before it.
RefusalFails ==
    /\ phase["responder"] = "deciding" /\ ~served
    /\ \/ closing
       \/ holder["responder"] = "free" /\ ~intact["responder"]
    /\ LetGo("responder")
    /\ Leaves("responder", Remains("responder"))
    /\ holder' = [holder EXCEPT !["responder"] = "free"]
    /\ body' = [body EXCEPT !["responder"] = "none"]
    /\ UNCHANGED <<intact, wnext, reader, bus, beats, sent, got>>

\* The receive loop has drained its session tasks, and close returns.
Stop ==
    /\ closing /\ ~stopped
    /\ phase["responder"] \in {"none", "gone"}
    /\ stopped' = TRUE
    /\ UNCHANGED <<life, writer, pipe, ended, reader, closing, served, beats, sent, got>>

Next ==
    \/ Initiate \/ Admit
    \/ \E v \in {"accept", "refuse"} : Decide(v)
    \/ \E s \in Sides :
          \/ EndWrite(s) \/ AbandonWrite(s)
          \/ Send(s) \/ SayGoodbye(s) \/ CloseStream(s)
          \/ Beat(s) \/ BeatFails(s)
          \/ Recv(s) \/ RecvFails(s)
          \/ \E h \in {"tx", "rx"} : DropHalf(s, h)
          \/ Drop(s)
    \/ Shutdown \/ GraceExpires \/ RefusalFails \/ Stop

\* What a bus that is closing does by itself: its timer fires, its dispatcher
\* goes on, its writes end or are abandoned, and its receive loop drains.
CloseGoesOn ==
    /\ closing
    /\ \/ GraceExpires \/ RefusalFails \/ Stop
       \/ EndWrite("responder") \/ CloseStream("responder")
       \/ holder["responder"] = "app" /\ AbandonWrite("responder")

\* The runtime schedules its tasks and timers.  Nothing is asked of applications
\* or of the peer.
Fairness == WF_vars(CloseGoesOn)

Spec == Init /\ [][Next]_vars /\ Fairness

-------------------------------------------------------------------------------
(* Properties *)

\* An application receives what the other sent, in order and without gaps; and
\* a clean close means it has received all of it, cancelled sends included
\* (SessionReceiver::recv, "None once the peer closed cleanly").
CloseIsComplete ==
    \A s \in Sides :
        /\ IsPrefix(got[s], sent[Other(s)])
        /\ closed[s] => got[s] = sent[Other(s)]

\* Whatever is cancelled, dropped or shut down, an end never sees a faithful
\* peer break the protocol: no frame out of sequence, none after a torn one
\* and none out of place ("a torn frame can never be followed by another").
NoProtocolError ==
    \A s \in Sides : failed[s] \notin {"sequence", "garbage", "unexpected"}

\* An opener holds an open session only when the responder's handler is past
\* its decision: no data flows before it (IncomingSession, "before any data
\* flows").
OpenIsAccepted ==
    phase["opener"] \in {"open", "leaving", "finishing", "closed"} =>
        /\ served
        /\ phase["responder"] \in {"judging", "open", "leaving", "finishing",
                                   "closed", "gone"}

\* What a session promises its two applications, whatever the other end, the
\* keepalive tasks and the stream do (the module comment of session.rs).
SessionIsFaithful == CloseIsComplete /\ NoProtocolError /\ OpenIsAccepted

\* Bus::close returns, whatever the session's handler waits for ("close
\* therefore never waits on application code").
CloseReturns == closing ~> stopped

\* What the comment on Body::Keepalive says: "Liveness only; never surfaced."
\* An opener never loses its session to a keepalive.
KeepaliveNeverSurfaces == \A s \in Sides : failed[s] # "keepalive"
=============================================================================
