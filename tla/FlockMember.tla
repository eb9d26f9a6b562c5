------------------------------- MODULE FlockMember -------------------------------
(***************************************************************************)
(* A member's session process (agent-mesh-flock-session session.rs and     *)
(* ctl.rs): it enrolls, holds the session key, and serves the clients of   *)
(* its control socket one at a time.  To emit it renews its certificate,   *)
(* asks for the head of its chain, signs and admits: four exchanges with a *)
(* server that other members move on between them.                         *)
(***************************************************************************)
EXTENDS Integers, Sequences, FiniteSets

CONSTANTS
    Clients,     \* processes that call the control socket
    MaxEpoch,    \* bound on the server's epoch
    MaxEvents    \* bound on this session's events

VARIABLES
    up,       \* the session process: "enrolling", "serving", "ending", "gone"
    pending,  \* the session replaces another one and cannot sign yet
    cert,     \* the epoch the session's certificate is of
    callers,  \* each client of the control socket
    request,  \* the one being handled: who asked, what for, how far it is, since which epoch
    head,     \* the head the server answered with
    wired,    \* whether the connection to the server holds
    term,     \* the TERM flag of the signal handler
    epoch,    \* the server's epoch
    chain,    \* the server's chain of this session: the prev of each admitted event
    alive,    \* whether the server holds the session live
    refusals  \* history variable: what admit refused, and why

memberVars ==
    <<up, pending, cert, callers, request, head, wired, term, epoch, chain, alive, refusals>>

NoRequest == [for |-> 0, what |-> "none", pc |-> "none", since |-> 0]

MemberInit ==
    /\ up = "enrolling" /\ pending \in BOOLEAN /\ cert = 0
    /\ callers = [c \in Clients |-> "rest"]
    /\ request = NoRequest /\ head = 0
    /\ wired = TRUE /\ term = FALSE
    /\ epoch = 1 /\ chain = <<>> /\ alive = FALSE
    /\ refusals = {}

-------------------------------------------------------------------------------
(* Starting and ending *)

\* Session::enroll; a session in a pane announces itself unless it is a replacement.
EnrollSession(inPane) ==
    /\ up = "enrolling" /\ wired
    /\ up' = "serving" /\ alive' = TRUE /\ cert' = epoch
    /\ request' = IF inPane /\ ~pending
                  THEN [for |-> 0, what |-> "emit", pc |-> "renew", since |-> epoch]
                  ELSE NoRequest
    /\ UNCHANGED <<pending, callers, head, wired, term, epoch, chain, refusals>>

\* SIGTERM, at any time; the loop looks at the flag between two requests.
Signal ==
    /\ ~term
    /\ term' = TRUE
    /\ UNCHANGED <<up, pending, cert, callers, request, head, wired, epoch, chain, alive, refusals>>

Stops ==
    /\ up = "serving" /\ term /\ request = NoRequest
    /\ up' = "ending"
    /\ UNCHANGED <<pending, cert, callers, request, head, wired, term, epoch, chain, alive, refusals>>

\* Session::end: the session is ended, by this or by the connection that closes with it.
Leaves ==
    /\ up = "ending"
    /\ up' = "gone" /\ alive' = FALSE /\ wired' = FALSE
    /\ UNCHANGED <<pending, cert, callers, request, head, term, epoch, chain, refusals>>

-------------------------------------------------------------------------------
(* The control socket *)

\* ctl::call connects; the connection waits in the listener's queue.
ClientCalls(c) ==
    /\ callers[c] = "rest" /\ up \in {"enrolling", "serving"}
    /\ callers' = [callers EXCEPT ![c] = "queued"]
    /\ UNCHANGED <<up, pending, cert, request, head, wired, term, epoch, chain, alive, refusals>>

\* The process is gone, and its socket with it.
ClientAlone(c) ==
    /\ callers[c] = "queued" /\ up = "gone"
    /\ callers' = [callers EXCEPT ![c] = "error"]
    /\ UNCHANGED <<up, pending, cert, request, head, wired, term, epoch, chain, alive, refusals>>

\* handle: one request is read and handled before the next connection is accepted.  A
\* client that sends nothing in five seconds is let go.
Handle(c, what) ==
    /\ up = "serving" /\ ~term /\ request = NoRequest /\ callers[c] = "queued"
    /\ \/ /\ what \in {"emit", "prove"}
          /\ request' = [for |-> c, what |-> what, pc |-> "renew", since |-> epoch]
          /\ UNCHANGED <<callers, up>>
       \/ /\ what \in {"whoami", "silent"}
          /\ callers' = [callers EXCEPT ![c] = IF what = "whoami" THEN "told" ELSE "error"]
          /\ UNCHANGED <<request, up>>
       \/ /\ what = "end"
          /\ callers' = [callers EXCEPT ![c] = "told"] /\ up' = "ending"
          /\ UNCHANGED request
    /\ UNCHANGED <<pending, cert, head, wired, term, epoch, chain, alive, refusals>>

\* The request is over; its client has the answer.
Answered(answer) ==
    /\ request' = NoRequest
    /\ callers' = IF request.for = 0 THEN callers ELSE [callers EXCEPT ![request.for] = answer]

-------------------------------------------------------------------------------
(* Emitting *)

\* A plausible bug: the certificate at hand is used.
SkipRenew ==
    /\ request.pc = "renew" /\ wired /\ alive
    /\ cert' = cert
    /\ IF request.what = "prove" THEN Answered("told")
       ELSE request' = [request EXCEPT !.pc = "head"] /\ UNCHANGED callers
    /\ UNCHANGED <<up, pending, head, wired, term, epoch, chain, alive, refusals>>

\* renew: Current, or a certificate of the server's epoch for a proof of the key.
Renew ==
    /\ request.pc = "renew" /\ wired /\ alive
    /\ cert' = epoch
    /\ IF request.what = "prove" THEN Answered("told")
       ELSE request' = [request EXCEPT !.pc = "head"] /\ UNCHANGED callers
    /\ UNCHANGED <<up, pending, head, wired, term, epoch, chain, alive, refusals>>

\* Req::Head: the last event of this session's chain.
AskHead ==
    /\ request.pc = "head" /\ wired
    /\ head' = Len(chain)
    /\ request' = [request EXCEPT !.pc = "admit"]
    /\ UNCHANGED <<up, pending, cert, callers, wired, term, epoch, chain, alive, refusals>>

\* Why admit refuses the signed event, if it does.
Verdict ==
    CASE ~alive -> "session" [] pending -> "pending"
      [] cert < epoch -> "epoch" [] head # Len(chain) -> "fork" [] OTHER -> "none"

\* Req::Admit.
AdmitRequest ==
    /\ request.pc = "admit" /\ wired /\ Len(chain) < MaxEvents
    /\ IF Verdict = "none"
       THEN chain' = Append(chain, head) /\ Answered("told") /\ UNCHANGED refusals
       ELSE chain' = chain /\ Answered("error")
            /\ refusals' = refusals \cup {[why |-> Verdict, moved |-> epoch > request.since]}
    /\ UNCHANGED <<up, pending, cert, head, wired, term, epoch, alive>>

\* The server refuses to renew, or the connection to it is lost: the request fails and the
\* process goes on.
ServerSilent ==
    /\ request.pc \in {"renew", "head", "admit"}
    /\ ~wired \/ (request.pc = "renew" /\ ~alive)
    /\ Answered("error")
    /\ UNCHANGED <<up, pending, cert, head, wired, term, epoch, chain, alive, refusals>>

-------------------------------------------------------------------------------
(* The server, and the way to it *)

\* Another member's event moves the epoch, ends this session, or lets the pending one in.
EpochMoves ==
    /\ epoch < MaxEpoch
    /\ epoch' = epoch + 1
    /\ UNCHANGED <<up, pending, cert, callers, request, head, wired, term, chain, alive, refusals>>

LetIn ==
    /\ pending /\ alive
    /\ pending' = FALSE
    /\ UNCHANGED <<up, cert, callers, request, head, wired, term, epoch, chain, alive, refusals>>

\* The connection is lost; the server ends the session with it.
WireLost ==
    /\ wired /\ up = "serving"
    /\ wired' = FALSE /\ alive' = FALSE
    /\ UNCHANGED <<up, pending, cert, callers, request, head, term, epoch, chain, refusals>>

-------------------------------------------------------------------------------
MemberNext ==
    \/ \E p \in BOOLEAN : EnrollSession(p)
    \/ Signal \/ Stops \/ Leaves
    \/ \E c \in Clients :
         \/ ClientCalls(c) \/ ClientAlone(c)
         \/ \E what \in {"emit", "prove", "whoami", "silent", "end"} : Handle(c, what)
    \/ Renew \/ AskHead \/ AdmitRequest \/ ServerSilent
    \/ EpochMoves \/ LetIn \/ WireLost

MemberSpec == MemberInit /\ [][MemberNext]_memberVars

-------------------------------------------------------------------------------
(* Properties *)

\* However many clients emit at once, the session does not fork its own chain, and is not
\* behind by its own doing: admit refuses an event for its certificate only if the epoch
\* moved while that event was on its way.
RefusedOnlyWhenMoved ==
    \A r \in refusals : r.why # "fork" /\ (r.why = "epoch" => r.moved)

===============================================================================
