----------------------------- MODULE FlockBoard -----------------------------
(***************************************************************************)
(* The board: what a flock's members may say about briefs, reviews, jobs   *)
(* and questions, and what a reader makes of it (flock/admission.rs and    *)
(* flock/board.rs).                                                        *)
(*                                                                         *)
(* An entry is named by its admission index.  Who signed it, under which   *)
(* certificate and after which event of its own is FlockServer's business: *)
(* here the signer is an active session of `member`, an operator device    *)
(* the roster lists (member None, kind "answer") or the server (member     *)
(* None, kind "roster"; FlockState checks that it replaces the one in      *)
(* force).  Both nudged and nudge-misfire are "nudge".                     *)
(***************************************************************************)
EXTENDS Naturals, Sequences

CONSTANTS
    Members,     \* member names
    Lanes,       \* lane names
    Heads,       \* commits under review
    Rosters,     \* role of each member, "absent" if not listed
    Genesis,     \* the first roster
    None,        \* no member, lane, head or outcome
    MaxEntries   \* bound on the board's length

Roles == {"shepherd", "reviewer", "helper", "adapter", "operator", "absent"}

ASSUME BoardAssumption ==
    /\ Rosters \subseteq [Members -> Roles]
    /\ Genesis \in Rosters
    /\ None \notin Members \cup Lanes \cup Heads
    /\ MaxEntries \in Nat

VARIABLES
    roster,   \* the roster in force
    order,    \* admitted entries in index order
    closers   \* for each index, the entry that closed it, or 0

vars == <<roster, order, closers>>

Outcomes == {"completed", "failed"}

Kinds == {"roster", "brief", "review", "ack", "result", "verdict", "job",
          "job-end", "ask", "answer", "relayed-answer", "nudge", "status",
          "pane"}

Event ==
    [kind: Kinds, member: Members \cup {None}, lane: Lanes \cup {None},
     to: Members \cup {None}, ref: 0..MaxEntries, head: Heads \cup {None},
     outcome: Outcomes \cup {None}]

\* An admitted event: `conflict` is the first closer if it came second.
Entry == [event: Event, conflict: 0..MaxEntries]

Init ==
    /\ roster = Genesis
    /\ order = <<>>
    /\ closers = [i \in 1..MaxEntries |-> 0]

-----------------------------------------------------------------------------
(* The admission table. *)

\* The class gate: who may sign a kind at all.
SignerMember(ev) ==
    \/ ev.kind \in {"roster", "answer"} /\ ev.member = None
    \/ /\ ev.member # None
       /\ roster[ev.member] # "absent"
       /\ ev.kind # "answer"
       /\ ev.kind \in {"roster", "brief", "review"} => roster[ev.member] = "shepherd"
       /\ ev.kind \in {"nudge", "status"} => roster[ev.member] = "adapter"
       /\ ev.kind = "ack" => roster[ev.member] # "adapter"

\* The kinds of event a kind may cite.
RefKinds(kind) ==
    CASE kind \in {"ack", "nudge"} -> {"brief", "review"}
      [] kind \in {"result", "ask"} -> {"brief"}
      [] kind = "verdict" -> {"review"}
      [] kind = "job-end" -> {"job"}
      [] kind \in {"answer", "relayed-answer"} -> {"ask"}
      [] OTHER -> {}

RefOptional == {"ask", "nudge"}

\* Mutant: a question may be about a brief the board does not have.
CheckRefsLax(ev) ==
    IF ev.ref \notin DOMAIN order
    THEN \/ RefKinds(ev.kind) = {}
         \/ ev.kind = "ask"
         \/ ev.ref = 0 /\ ev.kind = "nudge"
    ELSE LET target == order[ev.ref].event IN
         /\ target.kind \in RefKinds(ev.kind)
         /\ ev.lane # None /\ target.lane # None => ev.lane = target.lane

\* Mutant: a question may name another lane than the brief it is about.
CheckRefsAnyLane(ev) ==
    IF ev.ref = 0 THEN RefKinds(ev.kind) = {} \/ ev.kind \in RefOptional
    ELSE ev.ref \in DOMAIN order /\ order[ev.ref].event.kind \in RefKinds(ev.kind)

\* A cited event exists, is of the right kind and is in the same lane when
\* both declare one.
CheckRefs(ev) ==
    IF ev.ref = 0 THEN RefKinds(ev.kind) = {} \/ ev.kind \in RefOptional
    ELSE /\ ev.ref \in DOMAIN order
         /\ LET target == order[ev.ref].event IN
            /\ target.kind \in RefKinds(ev.kind)
            /\ ev.lane # None /\ target.lane # None => ev.lane = target.lane

\* Mutant: any member may end a job.
ApplyTableAnyEnd(ev) ==
    LET target == order[ev.ref].event IN
    /\ ev.kind \in {"ack", "result", "verdict"} => target.to = ev.member
    /\ ev.kind = "verdict" => target.head = ev.head
    /\ ev.kind = "nudge" => /\ roster[ev.to] # "absent"
                            /\ ev.ref # 0 => target.to = ev.to

\* Work is acknowledged and answered by its addressee, a job is ended by the
\* member that began it, and a nudge is about the addressee of what it cites.
ApplyTable(ev) ==
    LET target == order[ev.ref].event IN
    /\ ev.kind \in {"ack", "result", "verdict"} => target.to = ev.member
    /\ ev.kind = "verdict" => target.head = ev.head
    /\ ev.kind = "job-end" => target.member = ev.member
    /\ ev.kind = "nudge" => /\ roster[ev.to] # "absent"
                            /\ ev.ref # 0 => target.to = ev.to

Decide(ev) == SignerMember(ev) /\ CheckRefs(ev) /\ ApplyTable(ev)

\* Mutant: a member's copy of an answer closes the question.
ClosedByRelayed(ev) ==
    IF ev.kind \in {"result", "verdict", "job-end", "answer", "relayed-answer"}
    THEN ev.ref ELSE 0

\* The entry this one closes, 0 for none.
ClosedBy(ev) ==
    IF ev.kind \in {"result", "verdict", "job-end", "answer"} THEN ev.ref ELSE 0

\* The entry that already closed what ev closes, 0 for none.
FirstCloser(ev) == IF ClosedBy(ev) = 0 THEN 0 ELSE closers[ClosedBy(ev)]

\* Mutant: the last closer counts.
ClosersAfterLast(ev) ==
    IF ClosedBy(ev) # 0
    THEN [closers EXCEPT ![ClosedBy(ev)] = Len(order) + 1] ELSE closers

\* A second closer is admitted as a conflict and replaces nothing.
ClosersAfter(ev) ==
    IF ClosedBy(ev) # 0 /\ FirstCloser(ev) = 0
    THEN [closers EXCEPT ![ClosedBy(ev)] = Len(order) + 1] ELSE closers

Record(ev) ==
    /\ Len(order) < MaxEntries
    /\ Decide(ev)
    /\ closers' = ClosersAfter(ev)
    /\ order' = Append(order, [event |-> ev, conflict |-> FirstCloser(ev)])

-----------------------------------------------------------------------------
(* What members, devices and the server submit. *)

Says(kind, member) ==
    [kind |-> kind, member |-> member, lane |-> None, to |-> None,
     ref |-> 0, head |-> None, outcome |-> None]

Roster(m, r) ==
    /\ Record(Says("roster", m))
    /\ roster' = r

Brief(m, lane, to) ==
    /\ Record([Says("brief", m) EXCEPT !.lane = lane, !.to = to])
    /\ UNCHANGED roster

Review(m, lane, to, head) ==
    /\ Record([Says("review", m) EXCEPT !.lane = lane, !.to = to, !.head = head])
    /\ UNCHANGED roster

Ack(m, t) ==
    /\ Record([Says("ack", m) EXCEPT !.ref = t])
    /\ UNCHANGED roster

Result(m, t, outcome) ==
    /\ Record([Says("result", m) EXCEPT !.ref = t, !.outcome = outcome])
    /\ UNCHANGED roster

Verdict(m, t, head) ==
    /\ Record([Says("verdict", m) EXCEPT !.ref = t, !.head = head])
    /\ UNCHANGED roster

Job(m, lane) ==
    /\ Record([Says("job", m) EXCEPT !.lane = lane])
    /\ UNCHANGED roster

JobEnd(m, t) ==
    /\ Record([Says("job-end", m) EXCEPT !.ref = t])
    /\ UNCHANGED roster

Ask(m, lane, t) ==
    /\ Record([Says("ask", m) EXCEPT !.lane = lane, !.ref = t])
    /\ UNCHANGED roster

Answer(t) ==
    /\ Record([Says("answer", None) EXCEPT !.ref = t])
    /\ UNCHANGED roster

RelayedAnswer(m, t) ==
    /\ Record([Says("relayed-answer", m) EXCEPT !.ref = t])
    /\ UNCHANGED roster

Nudge(m, to, t) ==
    /\ Record([Says("nudge", m) EXCEPT !.to = to, !.ref = t])
    /\ UNCHANGED roster

Status(m) ==
    /\ Record(Says("status", m))
    /\ UNCHANGED roster

Pane(m) ==
    /\ Record(Says("pane", m))
    /\ UNCHANGED roster

\* What an event may try to cite, entries the board does not have included.
Targets == 1..MaxEntries

Next ==
    \/ \E m \in Members \cup {None}, r \in Rosters : Roster(m, r)
    \/ \E t \in Targets : Answer(t)
    \/ \E m \in Members :
         \/ Status(m) \/ Pane(m)
         \/ \E lane \in Lanes : Job(m, lane)
         \/ \E lane \in Lanes, to \in Members : Brief(m, lane, to)
         \/ \E lane \in Lanes, to \in Members, head \in Heads :
               Review(m, lane, to, head)
         \/ \E t \in Targets : Ack(m, t) \/ JobEnd(m, t) \/ RelayedAnswer(m, t)
         \/ \E t \in Targets, o \in Outcomes : Result(m, t, o)
         \/ \E t \in Targets, head \in Heads : Verdict(m, t, head)
         \/ \E t \in Targets \cup {0}, lane \in Lanes \cup {None} : Ask(m, lane, t)
         \/ \E t \in Targets \cup {0}, to \in Members : Nudge(m, to, t)

Spec == Init /\ [][Next]_vars

-----------------------------------------------------------------------------
(* What a reader makes of it. *)

Cites(kind, b) ==
    {i \in DOMAIN order : order[i].event.kind = kind /\ order[i].event.ref = b}

InputRequired(b) ==
    \E i \in Cites("ask", b) : order[i].conflict = 0 /\ closers[i] = 0

\* The state of the attempt that brief b asks for.
Attempt(b) ==
    CASE closers[b] # 0 -> order[closers[b]].event.outcome
      [] closers[b] = 0 /\ InputRequired(b) -> "input-required"
      [] closers[b] = 0 /\ ~InputRequired(b) /\ Cites("ack", b) # {} -> "working"
      [] OTHER -> "submitted"

Briefs == {b \in DOMAIN order : order[b].event.kind = "brief"}

-----------------------------------------------------------------------------
(* Properties. *)

TypeOK ==
    /\ roster \in [Members -> Roles]
    /\ order \in Seq(Entry)
    /\ closers \in [1..MaxEntries -> 0..MaxEntries]
    /\ \A i \in DOMAIN order : order[i].event.ref < i

\* What closes a brief, review, job or question is the first event that ever
\* set out to; every later one is kept, marked with the first, and changes
\* nothing.  ("a second closer is admitted as conflict and never replaces the
\* first", docs/decisions/flock.md; Board::apply and closed_by.)
FirstCloserWins ==
    \A t \in DOMAIN order :
        LET c == {i \in DOMAIN order : ClosedBy(order[i].event) = t} IN
        /\ closers[t] = 0 <=> c = {}
        /\ c # {} =>
             /\ closers[t] \in c
             /\ \A i \in c : /\ closers[t] <= i
                             /\ order[i].conflict =
                                   IF i = closers[t] THEN 0 ELSE closers[t]

\* A brief whose result is in keeps that result, whatever is asked, answered,
\* acknowledged or replaced later; and no brief goes back to "submitted".
AttemptsSettle ==
    [][\A b \in Briefs :
          /\ Attempt(b) \in Outcomes => Attempt(b)' = Attempt(b)
          /\ Attempt(b)' = "submitted" => Attempt(b) \in {"submitted", "input-required"}
      ]_vars

\* A brief that waits for the operator goes on only when a device of the
\* operator answers or the addressee gives up waiting and reports a result: a
\* relayed copy of an answer moves nothing.
OnlyTheOperatorAnswers ==
    [][\A b \in Briefs :
          (Attempt(b) = "input-required" /\ Attempt(b)' # "input-required") =>
             LET last == order'[Len(order')].event IN
             \/ last.kind = "answer" /\ last.member = None
             \/ last.kind = "result" /\ last.member = order[b].event.to
      ]_vars

\* A job stays open on its lane until the member that began it ends it, even
\* if the roster has changed in between.
JobsEndedByTheirMember ==
    [][\A i \in DOMAIN order :
          (order[i].event.kind = "job" /\ closers[i] = 0 /\ closers'[i] # 0) =>
             /\ order'[closers'[i]].event.member = order[i].event.member
             /\ roster[order[i].event.member] # "absent"
      ]_vars

\* What the kinds of events may do to work under way: results stand, an answer is
\* the operator's, and a job is ended by the member that began it (board.rs,
\* admission.rs).
BoardIsLawful == AttemptsSettle /\ OnlyTheOperatorAnswers /\ JobsEndedByTheirMember

=============================================================================
