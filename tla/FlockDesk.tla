----------------------------- MODULE FlockDesk -----------------------------
(***************************************************************************)
(* The commands and views a member and the operator work with: `result`    *)
(* and `verdict`, which look up what they close in the verified log before *)
(* they send (flock/close.rs), `run`, which brackets a process with job    *)
(* and job-end (flock/run.rs), the operator's signer (operator.rs), and    *)
(* what `inbox`, `status` and the terminal view list.                      *)
(*                                                                         *)
(* Each command reads the log, then sends one event: between the two the   *)
(* rest of the flock goes on (FlockBoard's Next, which is also what the    *)
(* MCP tool flock_emit may send, unchecked).  One command is under way at  *)
(* a time.  A killed command stops where it is.  The operator's device has *)
(* been made.                                                              *)
(***************************************************************************)
EXTENDS FlockBoard

VARIABLE
    cmd      \* the command under way, or NoCommand

NoCommand ==
    [what |-> "none", member |-> None, target |-> 0, seen |-> 0, step |-> "none", signed |-> FALSE]

\* A command for target t, which it found in the log as it stands.
Command(what, m, t, step) ==
    [what |-> what, member |-> m, target |-> t, seen |-> Len(order), step |-> step,
     signed |-> FALSE]

DeskInit == cmd = NoCommand

Free == cmd = NoCommand

\* The session's Emit: admitted or refused, the command is over.
SendVia(ev) ==
    /\ cmd' = NoCommand
    /\ \/ Record(ev)
       \/ ~Decide(ev) /\ UNCHANGED <<order, closers>>
    /\ UNCHANGED roster

-----------------------------------------------------------------------------
(* What a reader lists *)

\* mine: the briefs or reviews addressed to m
Mine(kind, m) ==
    {i \in DOMAIN order : /\ order[i].conflict = 0
                          /\ order[i].event.kind = kind
                          /\ order[i].event.to = m}

\* open_in
OpenIn(kind, m, lane) ==
    {i \in Mine(kind, m) : order[i].event.lane = lane /\ closers[i] = 0}

\* Board::lanes: the last brief of a lane
Latest(lane) ==
    {b \in Briefs : /\ order[b].event.lane = lane
                    /\ \A c \in Briefs : order[c].event.lane = lane => c <= b}

\* inbox_text
InboxOf(m) ==
    {b \in Mine("brief", m) : Attempt(b) \notin Outcomes}
        \cup {r \in Mine("review", m) : closers[r] = 0}

\* open_work: the lanes that wait for m
OpenLanes(m) ==
    {lane \in Lanes : \E b \in Latest(lane) :
        Attempt(b) \in {"submitted", "working", "input-required"} /\ order[b].event.to = m}

\* waiting_rows: what waits, and on whom
WaitingRows ==
    LET open(kind) == {i \in DOMAIN order : /\ order[i].event.kind = kind
                                            /\ order[i].conflict = 0 /\ closers[i] = 0}
        about(i) == order[i].event.ref
    IN {<<i, IF about(i) = 0 THEN None ELSE order[about(i)].event.member>> : i \in open("ask")}
       \cup {<<i, order[i].event.to>> : i \in open("review")}
       \cup {<<b, order[b].event.to>> :
                b \in {b \in UNION {Latest(l) : l \in Lanes} : Attempt(b) = "submitted"}}

\* lane_ref: the kinds whose lane may be that of the event they answer
LaneFromRef == {"ack", "result", "verdict", "job-end", "ask", "answer", "relayed-answer"}

\* row_of: the lane each event shows in
RowLane ==
    LET lane[i \in DOMAIN order] ==
            LET ev == order[i].event IN
            CASE ev.lane # None -> ev.lane
              [] ev.lane = None /\ ev.kind \in LaneFromRef /\ ev.ref # 0 -> lane[ev.ref]
              [] OTHER -> None
    IN lane

-----------------------------------------------------------------------------
(* result and verdict: pick, then emit *)

Closes == [result |-> "brief", verdict |-> "review"]

Picked(what, m, t) ==
    /\ cmd' = Command(what, m, t, "picked")
    /\ UNCHANGED vars

\* --lane: the one open target of m in that lane
PickLane(what, m, lane) ==
    /\ Free
    /\ \E t \in OpenIn(Closes[what], m, lane) :
          /\ OpenIn(Closes[what], m, lane) = {t}
          /\ Picked(what, m, t)

\* A plausible bug: an id is taken as it is given.
PickAnyId(what, m, t) == Free /\ Picked(what, m, t)

\* by id: one the log does not have is left to the server to refuse
PickId(what, m, t) == Free /\ closers[t] = 0 /\ Picked(what, m, t)

EmitClose(outcome, head) ==
    /\ cmd.what \in DOMAIN Closes
    /\ SendVia(IF cmd.what = "result"
               THEN [Says("result", cmd.member) EXCEPT !.ref = cmd.target, !.outcome = outcome]
               ELSE [Says("verdict", cmd.member) EXCEPT !.ref = cmd.target, !.head = head])

\* run: job, the child, job-end
RunJob(m, lane) ==
    /\ Free
    /\ Record([Says("job", m) EXCEPT !.lane = lane])
    /\ cmd' = Command("run", m, Len(order) + 1, "child")
    /\ UNCHANGED roster

RunEnd ==
    /\ cmd.what = "run"
    /\ SendVia([Says("job-end", cmd.member) EXCEPT !.ref = cmd.target])

\* The command is killed, or the child cannot be waited for.
Killed ==
    /\ cmd.what \in {"run"} \cup DOMAIN Closes
    /\ cmd' = NoCommand
    /\ UNCHANGED vars

-----------------------------------------------------------------------------
(* The operator's signer *)

Signing(step) == cmd.what = "sign" /\ cmd.step = step

\* A plausible bug: the signer shows an ask that is already answered.
SignShowAny(t) ==
    /\ Free
    /\ t \in DOMAIN order /\ order[t].event.kind = "ask" /\ order[t].conflict = 0
    /\ cmd' = Command("sign", None, t, "shown")
    /\ UNCHANGED vars

\* sign_one checks the request against the verified log and shows it ...
SignShow(t) ==
    /\ Free
    /\ t \in DOMAIN order /\ order[t].event.kind = "ask" /\ order[t].conflict = 0
    /\ closers[t] = 0
    /\ cmd' = Command("sign", None, t, "shown")
    /\ UNCHANGED vars

\* SignReply
Replies == {"admitted", "refused"}

Reply(said) ==
    /\ cmd' = [cmd EXCEPT !.step = said]
    /\ UNCHANGED vars

\* ... the human declines, or the passphrase is wrong ...
Declined == Signing("shown") /\ Reply("refused")

\* ... or it signs, and submits.
Sign ==
    /\ Signing("shown")
    /\ cmd' = [cmd EXCEPT !.step = "signed", !.signed = TRUE]
    /\ UNCHANGED vars

\* The server is not there, or refuses the device.
NotSubmitted == Signing("signed") /\ Reply("refused")

Submit ==
    /\ Signing("signed")
    /\ Record([Says("answer", None) EXCEPT !.ref = cmd.target])
    /\ cmd' = [cmd EXCEPT !.step = "submitted"]
    /\ UNCHANGED roster

Answered == Signing("submitted") /\ Reply("admitted")
AnswerLost == Signing("submitted") /\ Reply("refused")

\* request_answer tells whoever asked; the signer takes the next request.
Told ==
    /\ cmd.what = "sign" /\ cmd.step \in Replies
    /\ cmd' = NoCommand
    /\ UNCHANGED vars

-----------------------------------------------------------------------------
DeskNext ==
    \/ Next /\ UNCHANGED cmd
    \/ \E m \in Members, what \in DOMAIN Closes :
         \/ \E lane \in Lanes : PickLane(what, m, lane)
         \/ \E t \in Targets : PickId(what, m, t)
    \/ \E outcome \in Outcomes, head \in Heads : EmitClose(outcome, head)
    \/ \E m \in Members, lane \in Lanes : RunJob(m, lane)
    \/ RunEnd \/ Killed
    \/ \E t \in Targets : SignShow(t)
    \/ Declined \/ Sign \/ NotSubmitted \/ Submit \/ Answered \/ AnswerLost \/ Told

DeskSpec == Init /\ DeskInit /\ [][DeskNext]_<<vars, cmd>>

-----------------------------------------------------------------------------
(* Properties *)

\* A command that closes something makes a conflict only when it was overtaken: the event
\* that closed its target was admitted after the command had read the log.  ("a second
\* closer would be admitted as a conflict that closes nothing and the lane would stay
\* open": close::pick, sign_one.)
ConflictOnlyIfRaced ==
    [][(~Free /\ cmd' # cmd /\ order' # order) =>
         order'[Len(order')].conflict \notin 1..cmd.seen]_<<vars, cmd>>

\* The readers agree on what is open, each in its own words: what `result --lane` can close
\* is what the member's inbox lists; the latest attempt of a lane, while open, is in its
\* addressee's inbox and counted on their row, and waits in the Waiting view, itself or as
\* a question put to whoever briefed it, until it is taken up; and an event shows in the
\* lane of the event it answers.
ReadersAgree ==
    /\ \A m \in Members :
         LET inbox == InboxOf(m) IN
         \A lane \in Lanes :
            OpenIn("brief", m, lane) = {b \in inbox \cap Briefs : order[b].event.lane = lane}
    /\ \A lane \in Lanes : \A b \in Latest(lane) :
         LET to == order[b].event.to IN
         closers[b] = 0 =>
            /\ b \in InboxOf(to) /\ lane \in OpenLanes(to)
            /\ \/ Attempt(b) = "working"
               \/ <<b, to>> \in WaitingRows
               \/ \E q \in Cites("ask", b) : <<q, order[b].event.member>> \in WaitingRows
    /\ LET lane == RowLane IN
       \A i \in DOMAIN order :
         (order[i].event.kind \in LaneFromRef /\ order[i].event.ref # 0) =>
            lane[order[i].event.ref] \in {lane[i], None}

\* "Nothing was signed." (what SignReply::Refused says of itself)
RefusedSignedNothing == cmd.step = "refused" => ~cmd.signed

=============================================================================
