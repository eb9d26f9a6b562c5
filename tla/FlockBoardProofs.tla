-------------------------- MODULE FlockBoardProofs --------------------------
(***************************************************************************)
(* Theorems about the board and what works on it.                          *)
(*                                                                         *)
(* The board, for any members, lanes, commits and rosters and a board of   *)
(* any length: the first closer counts and every later one is marked with  *)
(* it, attempts settle, only a device of the operator answers, and a job   *)
(* is ended by the member that began it.  Every step admits one event      *)
(* (StepRecords), so each result is shown of what Record does and not of   *)
(* each kind of event.                                                     *)
(*                                                                         *)
(* The desk, whose commands read, decide and send at different times: it   *)
(* implements the board, and makes a conflict only when it was overtaken.  *)
(*                                                                         *)
(* The terminal view, for any files, queue and length of the log: once its *)
(* threads are quiet it shows all there is.                                *)
(***************************************************************************)
EXTENDS FlockBoard, FlockDesk, TuiApp, TLAPS

-----------------------------------------------------------------------------
(* The inductive invariant. *)

\* Nothing is closed that is not on the board, and by nothing that is not.
ClosersOnBoard ==
    /\ Len(order) <= MaxEntries
    /\ \A t \in 1..MaxEntries :
          /\ closers[t] <= Len(order)
          /\ closers[t] # 0 => t \in DOMAIN order

BoardInv == TypeOK /\ ClosersOnBoard /\ FirstCloserWins

-----------------------------------------------------------------------------
(* What one event does. *)

\* Every step admits one event; only a result has an outcome.
LEMMA StepRecords ==
    ASSUME TypeOK, Next
    PROVE  /\ \E ev \in Event : Record(ev) /\ (ev.kind = "result" => ev.outcome \in Outcomes)
           /\ roster' \in [Members -> Roles]
<1> DEFINE Reports ==
      \E ev \in Event : Record(ev) /\ (ev.kind = "result" => ev.outcome \in Outcomes)
<1>0. 0 \in 0..MaxEntries /\ \A t \in Targets : t \in 0..MaxEntries
  BY BoardAssumption DEF Targets
<1>1. ASSUME NEW m \in Members \cup {None}, NEW r \in Rosters, Roster(m, r)
      PROVE  Reports /\ roster' \in [Members -> Roles]
  <2> DEFINE ev == Says("roster", m)
  <2>1. ev \in Event /\ ev.kind = "roster"
    BY <1>0 DEF Says, Event, Kinds
  <2> QED
    BY <1>1, <2>1, BoardAssumption DEF Roster
<1>2. ASSUME NEW t \in Targets, Answer(t)
      PROVE  Reports /\ UNCHANGED roster
  <2> DEFINE ev == [Says("answer", None) EXCEPT !.ref = t]
  <2>1. ev \in Event /\ ev.kind = "answer"
    BY <1>0 DEF Says, Event, Kinds
  <2> QED
    BY <1>2, <2>1 DEF Answer
<1>3. ASSUME NEW m \in Members, Status(m)
      PROVE  Reports /\ UNCHANGED roster
  <2> DEFINE ev == Says("status", m)
  <2>1. ev \in Event /\ ev.kind = "status"
    BY <1>0 DEF Says, Event, Kinds
  <2> QED
    BY <1>3, <2>1 DEF Status
<1>4. ASSUME NEW m \in Members, Pane(m)
      PROVE  Reports /\ UNCHANGED roster
  <2> DEFINE ev == Says("pane", m)
  <2>1. ev \in Event /\ ev.kind = "pane"
    BY <1>0 DEF Says, Event, Kinds
  <2> QED
    BY <1>4, <2>1 DEF Pane
<1>5. ASSUME NEW m \in Members, NEW lane \in Lanes, Job(m, lane)
      PROVE  Reports /\ UNCHANGED roster
  <2> DEFINE ev == [Says("job", m) EXCEPT !.lane = lane]
  <2>1. ev \in Event /\ ev.kind = "job"
    BY <1>0 DEF Says, Event, Kinds
  <2> QED
    BY <1>5, <2>1 DEF Job
<1>6. ASSUME NEW m \in Members, NEW lane \in Lanes, NEW to \in Members, Brief(m, lane, to)
      PROVE  Reports /\ UNCHANGED roster
  <2> DEFINE ev == [Says("brief", m) EXCEPT !.lane = lane, !.to = to]
  <2>1. ev \in Event /\ ev.kind = "brief"
    BY <1>0 DEF Says, Event, Kinds
  <2> QED
    BY <1>6, <2>1 DEF Brief
<1>7. ASSUME NEW m \in Members, NEW lane \in Lanes, NEW to \in Members,
             NEW head \in Heads, Review(m, lane, to, head)
      PROVE  Reports /\ UNCHANGED roster
  <2> DEFINE ev == [Says("review", m) EXCEPT !.lane = lane, !.to = to, !.head = head]
  <2>1. ev \in Event /\ ev.kind = "review"
    BY <1>0 DEF Says, Event, Kinds
  <2> QED
    BY <1>7, <2>1 DEF Review
<1>8. ASSUME NEW m \in Members, NEW t \in Targets, Ack(m, t)
      PROVE  Reports /\ UNCHANGED roster
  <2> DEFINE ev == [Says("ack", m) EXCEPT !.ref = t]
  <2>1. ev \in Event /\ ev.kind = "ack"
    BY <1>0 DEF Says, Event, Kinds
  <2> QED
    BY <1>8, <2>1 DEF Ack
<1>9. ASSUME NEW m \in Members, NEW t \in Targets, JobEnd(m, t)
      PROVE  Reports /\ UNCHANGED roster
  <2> DEFINE ev == [Says("job-end", m) EXCEPT !.ref = t]
  <2>1. ev \in Event /\ ev.kind = "job-end"
    BY <1>0 DEF Says, Event, Kinds
  <2> QED
    BY <1>9, <2>1 DEF JobEnd
<1>10. ASSUME NEW m \in Members, NEW t \in Targets, RelayedAnswer(m, t)
      PROVE  Reports /\ UNCHANGED roster
  <2> DEFINE ev == [Says("relayed-answer", m) EXCEPT !.ref = t]
  <2>1. ev \in Event /\ ev.kind = "relayed-answer"
    BY <1>0 DEF Says, Event, Kinds
  <2> QED
    BY <1>10, <2>1 DEF RelayedAnswer
<1>11. ASSUME NEW m \in Members, NEW t \in Targets, NEW o \in Outcomes, Result(m, t, o)
      PROVE  Reports /\ UNCHANGED roster
  <2> DEFINE ev == [Says("result", m) EXCEPT !.ref = t, !.outcome = o]
  <2>1. ev \in Event /\ ev.kind = "result" /\ ev.outcome = o
    BY <1>0 DEF Says, Event, Kinds
  <2> QED
    BY <1>11, <2>1 DEF Result
<1>12. ASSUME NEW m \in Members, NEW t \in Targets, NEW head \in Heads, Verdict(m, t, head)
      PROVE  Reports /\ UNCHANGED roster
  <2> DEFINE ev == [Says("verdict", m) EXCEPT !.ref = t, !.head = head]
  <2>1. ev \in Event /\ ev.kind = "verdict"
    BY <1>0 DEF Says, Event, Kinds
  <2> QED
    BY <1>12, <2>1 DEF Verdict
<1>13. ASSUME NEW m \in Members, NEW t \in Targets \cup {0},
             NEW lane \in Lanes \cup {None}, Ask(m, lane, t)
      PROVE  Reports /\ UNCHANGED roster
  <2> DEFINE ev == [Says("ask", m) EXCEPT !.lane = lane, !.ref = t]
  <2>1. ev \in Event /\ ev.kind = "ask"
    BY <1>0 DEF Says, Event, Kinds
  <2> QED
    BY <1>13, <2>1 DEF Ask
<1>14. ASSUME NEW m \in Members, NEW t \in Targets \cup {0}, NEW to \in Members, Nudge(m, to, t)
      PROVE  Reports /\ UNCHANGED roster
  <2> DEFINE ev == [Says("nudge", m) EXCEPT !.to = to, !.ref = t]
  <2>1. ev \in Event /\ ev.kind = "nudge"
    BY <1>0 DEF Says, Event, Kinds
  <2> QED
    BY <1>14, <2>1 DEF Nudge
<1> QED
  BY <1>1, <1>2, <1>3, <1>4, <1>5, <1>6, <1>7, <1>8, <1>9, <1>10, <1>11, <1>12,
     <1>13, <1>14 DEF Next, TypeOK

\* What an event cites is on the board.
LEMMA RefOnBoard ==
    ASSUME TypeOK, NEW ev \in Event, Record(ev)
    PROVE  ev.ref \in 0..Len(order) /\ ClosedBy(ev) \in 0..Len(order)
<1>1. ev.ref = 0 \/ ev.ref \in DOMAIN order
  BY DEF Record, Decide, CheckRefs
<1>2. order \in Seq(Entry)
  BY DEF TypeOK
<1> QED
  BY <1>1, <1>2 DEF ClosedBy

\* The board after an event: one entry more, and at most one index more closed.
LEMMA RecordDoes ==
    ASSUME BoardInv, NEW ev \in Event, Record(ev)
    PROVE  LET n == Len(order) + 1
               t == ClosedBy(ev)
           IN  /\ n \in 1..MaxEntries /\ t \in 0..Len(order)
               /\ order' \in Seq(Entry) /\ Len(order') = n
               /\ DOMAIN order = 1..Len(order) /\ DOMAIN order' = 1..n
               /\ \A i \in 1..Len(order) : order'[i] = order[i]
               /\ order'[n].event = ev /\ order'[n].conflict = FirstCloser(ev)
               /\ closers' \in [1..MaxEntries -> 0..MaxEntries]
               /\ \A i \in 1..MaxEntries :
                     closers'[i] = IF i = t /\ closers[i] = 0 THEN n ELSE closers[i]
<1> DEFINE n == Len(order) + 1
           t == ClosedBy(ev)
<1>1. order \in Seq(Entry) /\ Len(order) \in Nat /\ DOMAIN order = 1..Len(order)
  BY DEF BoardInv, TypeOK
<1>2. n \in 1..MaxEntries /\ MaxEntries \in Nat
  BY <1>1, BoardAssumption DEF Record
<1>3. t \in 0..Len(order)
  BY RefOnBoard DEF BoardInv
<1>4. closers \in [1..MaxEntries -> 0..MaxEntries]
  BY DEF BoardInv, TypeOK
<1>5. FirstCloser(ev) \in 0..MaxEntries
  BY <1>1, <1>2, <1>3, <1>4 DEF FirstCloser
<1>6. [event |-> ev, conflict |-> FirstCloser(ev)] \in Entry
  BY <1>5 DEF Entry
<1>7. /\ order' \in Seq(Entry) /\ Len(order') = n /\ DOMAIN order' = 1..n
      /\ \A i \in 1..Len(order) : order'[i] = order[i]
      /\ order'[n] = [event |-> ev, conflict |-> FirstCloser(ev)]
  BY <1>1, <1>6 DEF Record
<1>8. /\ closers' \in [1..MaxEntries -> 0..MaxEntries]
      /\ \A i \in 1..MaxEntries :
            closers'[i] = IF i = t /\ closers[i] = 0 THEN n ELSE closers[i]
  <2>1. closers' = IF t # 0 /\ closers[t] = 0 THEN [closers EXCEPT ![t] = n] ELSE closers
    BY DEF Record, ClosersAfter, FirstCloser
  <2>2. n \in 0..MaxEntries /\ (t # 0 => t \in 1..MaxEntries)
    BY <1>1, <1>2, <1>3
  <2> QED
    BY <1>4, <2>1, <2>2
<1> QED
  BY <1>1, <1>2, <1>3, <1>7, <1>8

\* Taking in an event keeps the invariant.
LEMMA RecordKeeps ==
    ASSUME BoardInv, NEW ev \in Event, Record(ev), roster' \in [Members -> Roles]
    PROVE  BoardInv'
<1> DEFINE n == Len(order) + 1
           t == ClosedBy(ev)
           Closing(s, k) == {i \in DOMAIN s : ClosedBy(s[i].event) = k}
<1>1. /\ n \in 1..MaxEntries /\ t \in 0..Len(order)
      /\ order' \in Seq(Entry) /\ Len(order') = n
      /\ DOMAIN order = 1..Len(order) /\ DOMAIN order' = 1..n
      /\ \A i \in 1..Len(order) : order'[i] = order[i]
      /\ order'[n].event = ev /\ order'[n].conflict = FirstCloser(ev)
      /\ closers' \in [1..MaxEntries -> 0..MaxEntries]
      /\ \A i \in 1..MaxEntries :
            closers'[i] = IF i = t /\ closers[i] = 0 THEN n ELSE closers[i]
  BY RecordDoes
<1>2. Len(order) \in Nat /\ MaxEntries \in Nat /\ closers \in [1..MaxEntries -> 0..MaxEntries]
  BY BoardAssumption DEF BoardInv, TypeOK
<1>3. TypeOK'
  <2>1. \A i \in 1..n : order'[i].event.ref < i
    <3>1. \A i \in 1..Len(order) : order[i].event.ref < i
      BY <1>1 DEF BoardInv, TypeOK
    <3>2. ev.ref < n
      BY <1>2, RefOnBoard DEF BoardInv
    <3>3. \A i \in 1..n : i \in 1..Len(order) \/ i = n
      BY <1>1, <1>2
    <3>4. \A i \in 1..Len(order) : order'[i].event.ref < i
      BY <1>1, <3>1
    <3>5. order'[n].event.ref < n
      BY <1>1, <3>2
    <3> QED
      BY <3>3, <3>4, <3>5
  <2> QED
    BY <1>1, <2>1 DEF TypeOK
<1>4. ClosersOnBoard'
  <2>1. \A i \in 1..MaxEntries : closers[i] <= Len(order) /\ (closers[i] # 0 => i \in 1..Len(order))
    BY <1>1 DEF BoardInv, ClosersOnBoard
  <2>2. ASSUME NEW i \in 1..MaxEntries
        PROVE  closers'[i] <= n /\ (closers'[i] # 0 => i \in 1..n)
    <3>1. closers'[i] = n \/ closers'[i] = closers[i]
      BY <1>1
    <3>2. closers[i] \in Nat /\ closers[i] <= Len(order) /\ n \in Nat
      BY <1>2, <2>1
    <3>3. closers'[i] # 0 => i = t \/ closers[i] # 0
      BY <1>1
    <3> QED
      BY <1>1, <1>2, <2>1, <3>1, <3>2, <3>3
  <2> QED
    BY <1>1, <2>2 DEF ClosersOnBoard
<1>5. FirstCloserWins'
  <2> SUFFICES ASSUME NEW k \in 1..n
               PROVE  LET c == Closing(order', k) IN
                      /\ closers'[k] = 0 <=> c = {}
                      /\ c # {} =>
                           /\ closers'[k] \in c
                           /\ \A i \in c : /\ closers'[k] <= i
                                           /\ order'[i].conflict =
                                                IF i = closers'[k] THEN 0 ELSE closers'[k]
    BY <1>1 DEF FirstCloserWins, ClosedBy
  <2>1. Closing(order', k) = IF t = k THEN Closing(order, k) \cup {n} ELSE Closing(order, k)
    <3>1. 1..n = (1..Len(order)) \cup {n} /\ n \notin 1..Len(order)
      BY <1>2
    <3>2. \A i \in 1..Len(order) : ClosedBy(order'[i].event) = ClosedBy(order[i].event)
      BY <1>1
    <3>3. ClosedBy(order'[n].event) = t
      BY <1>1
    <3> QED
      BY <1>1, <3>1, <3>2, <3>3
  <2>2. CASE k = n
    <3>1. ASSUME NEW i \in 1..Len(order) PROVE ClosedBy(order[i].event) # n
      <4>1. order[i].event.ref < i
        BY <1>1 DEF BoardInv, TypeOK
      <4>2. order[i] \in Entry
        BY <1>1 DEF BoardInv, TypeOK
      <4>3. order[i].event.ref \in 0..MaxEntries
        BY <4>2 DEF Entry, Event
      <4> QED
        BY <1>2, <4>1, <4>3 DEF ClosedBy
    <3>2. Closing(order', k) = {} /\ t # n
      BY <1>1, <1>2, <2>1, <2>2, <3>1
    <3>3. closers[n] = 0
      BY <1>1, <1>2 DEF BoardInv, ClosersOnBoard
    <3> QED
      BY <1>1, <2>2, <3>2, <3>3
  <2>3. CASE k \in 1..Len(order)
    <3> DEFINE c == Closing(order, k)
    <3>1. /\ closers[k] = 0 <=> c = {}
          /\ c # {} =>
               /\ closers[k] \in c
               /\ \A i \in c : /\ closers[k] <= i
                               /\ order[i].conflict =
                                    IF i = closers[k] THEN 0 ELSE closers[k]
      BY <1>1, <2>3 DEF BoardInv, FirstCloserWins
    <3>2. c \subseteq 1..Len(order) /\ n \notin c
      BY <1>1, <1>2
    <3>3. CASE t # k
      <4>1. closers'[k] = closers[k] /\ Closing(order', k) = c
        BY <1>1, <1>2, <2>1, <3>3
      <4> QED
        BY <1>1, <3>1, <3>2, <4>1
    <3>4. CASE t = k /\ closers[k] = 0
      <4>1. closers'[k] = n /\ Closing(order', k) = {n} /\ n # 0 /\ n <= n
        BY <1>1, <1>2, <2>1, <3>1, <3>4
      <4>2. order'[n].conflict = 0
        BY <1>1, <3>4 DEF FirstCloser
      <4> QED
        BY <4>1, <4>2
    <3>5. CASE t = k /\ closers[k] # 0
      <4>1. closers'[k] = closers[k] /\ Closing(order', k) = c \cup {n}
        BY <1>1, <1>2, <2>1, <3>5
      <4>2. closers[k] \in c /\ closers[k] # n /\ closers[k] <= n
        BY <1>2, <3>1, <3>2, <3>5
      <4>3. order'[n].conflict = closers[k]
        BY <1>1, <2>3, <3>5 DEF FirstCloser
      <4> QED
        BY <1>1, <3>1, <3>2, <4>1, <4>2, <4>3
    <3> QED
      BY <3>3, <3>4, <3>5
  <2> QED
    BY <1>2, <2>2, <2>3
<1> QED
  BY <1>3, <1>4, <1>5 DEF BoardInv

\* The invariant holds on every board.
THEOREM BoardCorrect == Spec => []BoardInv
<1>1. Init => BoardInv
  BY BoardAssumption
     DEF Init, BoardInv, TypeOK, ClosersOnBoard, FirstCloserWins, ClosedBy
<1>2. ASSUME BoardInv, [Next]_vars PROVE BoardInv'
  <2>1. CASE Next
    <3>1. PICK ev \in Event : Record(ev)
      BY <1>2, <2>1, StepRecords DEF BoardInv
    <3>2. roster' \in [Members -> Roles]
      BY <1>2, <2>1, StepRecords DEF BoardInv
    <3> QED
      BY <1>2, <3>1, <3>2, RecordKeeps
  <2>2. CASE UNCHANGED vars
    BY <1>2, <2>2
       DEF vars, BoardInv, TypeOK, ClosersOnBoard, FirstCloserWins, ClosedBy
  <2> QED
    BY <1>2, <2>1, <2>2
<1> QED
  BY <1>1, <1>2, PTL DEF Spec

\* What closes a brief, review, job or question is the first event that set out to;
\* every later one is admitted, marked with the first, and changes nothing
\* (Board::apply).
THEOREM FirstCloserCounts == Spec => []FirstCloserWins
<1>1. BoardInv => FirstCloserWins
  BY DEF BoardInv
<1> QED
  BY <1>1, BoardCorrect, PTL

-----------------------------------------------------------------------------
(* What a step may never do. *)

\* What closes an entry, by the kind of the entry.
LEMMA ClosesItsKind ==
    ASSUME BoardInv, NEW ev \in Event, Record(ev), ClosedBy(ev) # 0
    PROVE  LET target == order[ClosedBy(ev)].event IN
           /\ ClosedBy(ev) = ev.ref /\ ClosedBy(ev) \in DOMAIN order
           /\ target.kind = "brief" => ev.kind = "result" /\ target.to = ev.member
           /\ target.kind = "job" =>
                 /\ ev.kind = "job-end" /\ target.member = ev.member
                 /\ roster[ev.member] # "absent"
           /\ target.kind = "ask" => ev.kind = "answer" /\ ev.member = None
<1>1. /\ ClosedBy(ev) = ev.ref
      /\ ev.kind \in {"result", "verdict", "job-end", "answer"}
  BY DEF ClosedBy
<1>2. /\ ev.ref \in DOMAIN order
      /\ order[ev.ref].event.kind \in RefKinds(ev.kind)
  BY <1>1 DEF Record, Decide, CheckRefs
<1>3. SignerMember(ev) /\ ApplyTable(ev)
  BY DEF Record, Decide
<1> QED
  BY <1>1, <1>2, <1>3 DEF SignerMember, ApplyTable, RefKinds

\* An entry stays what it was, and so does what closed it.
LEMMA SettledStays ==
    ASSUME BoardInv, NEW ev \in Event, Record(ev), NEW b \in DOMAIN order
    PROVE  /\ b \in DOMAIN order' /\ order'[b] = order[b]
           /\ closers[b] # 0 => /\ closers'[b] = closers[b]
                                /\ order'[closers[b]] = order[closers[b]]
           /\ closers[b] = 0 /\ closers'[b] # 0 =>
                 /\ ClosedBy(ev) = b /\ closers'[b] = Len(order')
                 /\ order'[closers'[b]].event = ev
<1>1. /\ Len(order) + 1 \in 1..MaxEntries /\ Len(order') = Len(order) + 1
      /\ DOMAIN order = 1..Len(order) /\ DOMAIN order' = 1..(Len(order) + 1)
      /\ \A i \in 1..Len(order) : order'[i] = order[i]
      /\ order'[Len(order) + 1].event = ev
      /\ \A i \in 1..MaxEntries :
            closers'[i] = IF i = ClosedBy(ev) /\ closers[i] = 0
                          THEN Len(order) + 1 ELSE closers[i]
  BY RecordDoes
<1>2. Len(order) \in Nat /\ b \in 1..MaxEntries /\ b \in 1..(Len(order) + 1)
  BY <1>1, BoardAssumption DEF BoardInv, TypeOK
<1>3. closers[b] # 0 => closers[b] \in 1..Len(order)
  BY <1>1, <1>2 DEF BoardInv, ClosersOnBoard, TypeOK
<1> QED
  BY <1>1, <1>2, <1>3

\* Entries that cite something are still there after an event.
LEMMA CitesStay ==
    ASSUME BoardInv, NEW ev \in Event, Record(ev), NEW kind, NEW b
    PROVE  Cites(kind, b) \subseteq Cites(kind, b)'
BY SettledStays DEF Cites

\* A brief whose result is in keeps it, whatever is said later, and no brief that
\* was worked on is merely submitted again (board.rs, Attempt).
THEOREM AttemptsStaySettled == Spec => AttemptsSettle
<1> DEFINE Settles ==
      \A b \in Briefs :
          /\ Attempt(b) \in Outcomes => Attempt(b)' = Attempt(b)
          /\ Attempt(b)' = "submitted" => Attempt(b) \in {"submitted", "input-required"}
<1>1. ASSUME BoardInv, Next PROVE Settles
  <2>1. PICK ev \in Event : Record(ev) /\ (ev.kind = "result" => ev.outcome \in Outcomes)
    BY <1>1, StepRecords DEF BoardInv
  <2> SUFFICES ASSUME NEW b \in Briefs
               PROVE  /\ Attempt(b) \in Outcomes => Attempt(b)' = Attempt(b)
                      /\ Attempt(b)' = "submitted" =>
                            Attempt(b) \in {"submitted", "input-required"}
    OBVIOUS
  <2>2. b \in DOMAIN order /\ order[b].event.kind = "brief"
    BY DEF Briefs
  <2>3. CASE closers[b] # 0
    BY <1>1, <2>1, <2>2, <2>3, SettledStays DEF Attempt
  <2>4. CASE closers[b] = 0 /\ closers'[b] # 0
    <3>1. order'[closers'[b]].event.outcome \in Outcomes
      BY <1>1, <2>1, <2>2, <2>4, SettledStays, ClosesItsKind
    <3>2. Attempt(b)' \in Outcomes
      BY <2>4, <3>1 DEF Attempt
    <3>3. Attempt(b) \notin Outcomes
      BY <2>4 DEF Attempt, Outcomes
    <3> QED
      BY <3>2, <3>3 DEF Outcomes
  <2>5. CASE closers[b] = 0 /\ closers'[b] = 0
    <3>1. Attempt(b) \notin Outcomes
      BY <2>5 DEF Attempt, Outcomes
    <3>2. Cites("ack", b) # {} => Cites("ack", b)' # {}
      BY <1>1, <2>1, CitesStay
    <3>3. Attempt(b)' = "submitted" => Cites("ack", b)' = {}
      BY <2>5 DEF Attempt
    <3>4. Cites("ack", b) = {} => Attempt(b) \in {"submitted", "input-required"}
      BY <2>5 DEF Attempt
    <3> QED
      BY <3>1, <3>2, <3>3, <3>4
  <2> QED
    BY <2>3, <2>4, <2>5
<1>2. BoardInv /\ [Next]_vars => [Settles]_vars
  BY <1>1
<1> QED
  BY <1>2, BoardCorrect, PTL DEF Spec, AttemptsSettle

\* A brief that waits for the operator goes on only by an answer of a device of the
\* operator, or by its addressee's result: what a member relays moves nothing
\* (admission.rs, closed_by).
THEOREM OperatorAnswersAlone == Spec => OnlyTheOperatorAnswers
<1> DEFINE Waits ==
      \A b \in Briefs :
          (Attempt(b) = "input-required" /\ Attempt(b)' # "input-required") =>
             LET last == order'[Len(order')].event IN
             \/ last.kind = "answer" /\ last.member = None
             \/ last.kind = "result" /\ last.member = order[b].event.to
<1>1. ASSUME BoardInv, Next PROVE Waits
  <2>1. PICK ev \in Event : Record(ev)
    BY <1>1, StepRecords DEF BoardInv
  <2>2. order'[Len(order')].event = ev
    BY <1>1, <2>1, RecordDoes
  <2> SUFFICES ASSUME NEW b \in Briefs,
                      Attempt(b) = "input-required", Attempt(b)' # "input-required"
               PROVE  \/ ev.kind = "answer" /\ ev.member = None
                      \/ ev.kind = "result" /\ ev.member = order[b].event.to
    BY <2>2
  <2>3. b \in DOMAIN order /\ order[b].event.kind = "brief"
    BY DEF Briefs
  <2>4. closers[b] = 0
    BY <1>1, <2>1, <2>3, SettledStays DEF Attempt
  <2>5. CASE closers'[b] # 0
    BY <1>1, <2>1, <2>3, <2>4, <2>5, SettledStays, ClosesItsKind
  <2>6. CASE closers'[b] = 0
    <3>1. PICK i \in Cites("ask", b) : order[i].conflict = 0 /\ closers[i] = 0
      BY <2>4 DEF Attempt, InputRequired
    <3>2. i \in DOMAIN order /\ order[i].event.kind = "ask"
      BY DEF Cites
    <3>3. ~InputRequired(b)'
      BY <2>6 DEF Attempt
    <3>4. i \in Cites("ask", b)' /\ order'[i].conflict = 0
      BY <1>1, <2>1, <3>1, <3>2, CitesStay, SettledStays
    <3>5. closers'[i] # 0
      BY <3>3, <3>4 DEF InputRequired
    <3> QED
      BY <1>1, <2>1, <3>1, <3>2, <3>5, SettledStays, ClosesItsKind
  <2> QED
    BY <2>5, <2>6
<1>2. BoardInv /\ [Next]_vars => [Waits]_vars
  BY <1>1
<1> QED
  BY <1>2, BoardCorrect, PTL DEF Spec, OnlyTheOperatorAnswers

\* A job stays open until the member that began it ends it, as a member that the
\* roster in force lists (admission.rs, apply_table).
THEOREM JobsAreEndedByTheirOwn == Spec => JobsEndedByTheirMember
<1> DEFINE Ended ==
      \A i \in DOMAIN order :
          (order[i].event.kind = "job" /\ closers[i] = 0 /\ closers'[i] # 0) =>
             /\ order'[closers'[i]].event.member = order[i].event.member
             /\ roster[order[i].event.member] # "absent"
<1>1. ASSUME BoardInv, Next PROVE Ended
  <2>1. PICK ev \in Event : Record(ev)
    BY <1>1, StepRecords DEF BoardInv
  <2> QED
    BY <1>1, <2>1, SettledStays, ClosesItsKind
<1>2. BoardInv /\ [Next]_vars => [Ended]_vars
  BY <1>1
<1> QED
  BY <1>2, BoardCorrect, PTL DEF Spec, JobsEndedByTheirMember

\* No event takes back a result, answers for the operator or ends another's job.
THEOREM BoardStaysLawful == Spec => BoardIsLawful
BY AttemptsStaySettled, OperatorAnswersAlone, JobsAreEndedByTheirOwn DEF BoardIsLawful

-----------------------------------------------------------------------------
(* The commands of the desk. *)

\* The command under way, and what it is for.
CmdTyped ==
    /\ cmd.seen \in Nat /\ cmd.seen <= Len(order)
    /\ ~Free => cmd.target \in Targets
    /\ cmd.what \in {"none", "run", "sign"} \union DOMAIN Closes
    /\ cmd.what = "none" => Free
    /\ cmd.what \in {"run"} \union DOMAIN Closes => cmd.member \in Members
    /\ DOMAIN cmd = DOMAIN NoCommand

\* What the command is for was open when the command read the log: if it is closed by
\* now, that came after.
Overtaken ==
    ~Free => closers[cmd.target] = 0 \/ closers[cmd.target] > cmd.seen

DeskInv == BoardInv /\ CmdTyped /\ Overtaken

\* A command does only what the board lets any member, or a device, do.
LEMMA DeskStepsAreTheBoards ==
    ASSUME DeskInv, DeskNext
    PROVE  Next \/ UNCHANGED vars
<1> USE DEF DeskInv
<1>1. CASE Next /\ UNCHANGED cmd
  BY <1>1
<1>2. CASE \E m \in Members, what \in DOMAIN Closes :
             \/ \E lane \in Lanes : PickLane(what, m, lane)
             \/ \E t \in Targets : PickId(what, m, t)
  BY <1>2 DEF PickLane, PickId, Picked
<1>3. ASSUME NEW outcome \in Outcomes, NEW head \in Heads, EmitClose(outcome, head)
      PROVE  Next \/ UNCHANGED vars
  <2>1. cmd.member \in Members /\ cmd.target \in Targets /\ cmd.what \in {"result", "verdict"}
    BY <1>3 DEF EmitClose, CmdTyped, Closes, Free, NoCommand
  <2>2. CASE cmd.what = "result"
    <3>1. Result(cmd.member, cmd.target, outcome) \/ UNCHANGED vars
      BY <1>3, <2>2 DEF EmitClose, SendVia, Result, vars
    <3> QED
      BY <2>1, <3>1 DEF Next
  <2>3. CASE cmd.what = "verdict"
    <3>1. Verdict(cmd.member, cmd.target, head) \/ UNCHANGED vars
      BY <1>3, <2>3 DEF EmitClose, SendVia, Verdict, vars
    <3> QED
      BY <2>1, <3>1 DEF Next
  <2> QED
    BY <2>1, <2>2, <2>3
<1>4. CASE \E m \in Members, lane \in Lanes : RunJob(m, lane)
  BY <1>4 DEF RunJob, Next, Job
<1>5. CASE RunEnd
  <2>1. cmd.member \in Members /\ cmd.target \in Targets
    BY <1>5 DEF RunEnd, CmdTyped, Free, NoCommand
  <2>2. JobEnd(cmd.member, cmd.target) \/ UNCHANGED vars
    BY <1>5 DEF RunEnd, SendVia, JobEnd, vars
  <2> QED
    BY <2>1, <2>2 DEF Next
<1>6. CASE Submit
  <2>1. cmd.target \in Targets
    BY <1>6 DEF Submit, Signing, CmdTyped, Free, NoCommand
  <2>2. Answer(cmd.target)
    BY <1>6 DEF Submit, Answer
  <2> QED
    BY <2>1, <2>2 DEF Next
<1>7. CASE \/ Killed \/ \E t \in Targets : SignShow(t)
           \/ Declined \/ Sign \/ NotSubmitted \/ Answered \/ AnswerLost \/ Told
  BY <1>7 DEF Killed, SignShow, Declined, Sign, NotSubmitted, Answered, AnswerLost, Told, Reply
<1> QED
  BY <1>1, <1>2, <1>3, <1>4, <1>5, <1>6, <1>7 DEF DeskNext

\* A command begins with what is open, or goes on with what it had.
LEMMA CommandSteps ==
    ASSUME DeskInv, DeskNext
    PROVE  \/ /\ DOMAIN cmd' = DOMAIN cmd /\ cmd'.what = cmd.what /\ cmd'.member = cmd.member
              /\ cmd'.target = cmd.target /\ cmd'.seen = cmd.seen
              /\ (cmd' = NoCommand) = (cmd = NoCommand)
           \/ cmd' = NoCommand
           \/ /\ UNCHANGED vars
              /\ \E what \in DOMAIN Closes \union {"sign"}, t \in Targets : \E m, step :
                    /\ cmd' = Command(what, m, t, step) /\ closers[t] = 0
                    /\ what # "sign" => m \in Members
           \/ \E m \in Members, lane \in Lanes :
                 /\ Record([Says("job", m) EXCEPT !.lane = lane])
                 /\ cmd' = Command("run", m, Len(order) + 1, "child")
<1> USE DEF DeskInv
<1>1. CASE Next /\ UNCHANGED cmd
  BY <1>1
<1>2. CASE \E m \in Members, what \in DOMAIN Closes :
             \/ \E lane \in Lanes : PickLane(what, m, lane)
             \/ \E t \in Targets : PickId(what, m, t)
  <2>1. PICK m \in Members, what \in DOMAIN Closes :
             \/ \E lane \in Lanes : PickLane(what, m, lane)
             \/ \E t \in Targets : PickId(what, m, t)
    BY <1>2
  <2>2. PICK t : /\ Picked(what, m, t) /\ closers[t] = 0
                 /\ t \in Targets
    <3>1. DOMAIN order \subseteq Targets
      <4>1. order \in Seq(Entry) /\ Len(order) <= MaxEntries /\ MaxEntries \in Nat
        BY BoardAssumption DEF BoardInv, TypeOK, ClosersOnBoard
      <4> HIDE DEF Entry
      <4> QED
        BY <4>1 DEF Targets
    <3> QED
      BY <2>1, <3>1 DEF PickLane, PickId, OpenIn, Mine
  <2>3. what \in DOMAIN Closes \union {"sign"} /\ what # "sign"
    BY DEF Closes
  <2> QED
    BY <2>2, <2>3 DEF Picked
<1>3. CASE \/ \E outcome \in Outcomes, head \in Heads : EmitClose(outcome, head)
           \/ RunEnd \/ Killed \/ Told
  BY <1>3 DEF EmitClose, RunEnd, Killed, Told, SendVia
<1>4. CASE \E m \in Members, lane \in Lanes : RunJob(m, lane)
  BY <1>4 DEF RunJob
<1>5. CASE \E t \in Targets : SignShow(t)
  BY <1>5 DEF SignShow
<1>6. CASE Declined \/ Sign \/ NotSubmitted \/ Submit \/ Answered \/ AnswerLost
  <2>1. cmd.what = "sign"
    BY <1>6 DEF Declined, Sign, NotSubmitted, Submit, Answered, AnswerLost, Signing
  <2>2. \E said : \/ cmd' = [cmd EXCEPT !.step = said]
                  \/ cmd' = [cmd EXCEPT !.step = said, !.signed = TRUE]
    BY <1>6 DEF Declined, Sign, NotSubmitted, Submit, Answered, AnswerLost, Reply
  <2>3. /\ DOMAIN cmd' = DOMAIN cmd /\ cmd'.what = cmd.what /\ cmd'.member = cmd.member
        /\ cmd'.target = cmd.target /\ cmd'.seen = cmd.seen
    BY <2>2 DEF CmdTyped, NoCommand
  <2>4. cmd' # NoCommand /\ cmd # NoCommand
    BY <2>1, <2>3 DEF NoCommand
  <2> QED
    BY <2>3, <2>4
<1> QED
  BY <1>1, <1>2, <1>3, <1>4, <1>5, <1>6 DEF DeskNext

\* The board a step leaves: nothing is gone, and what is closed by it is closed at its end.
LEMMA BoardGrows ==
    ASSUME BoardInv, [Next]_vars
    PROVE  /\ BoardInv' /\ Len(order) \in Nat /\ Len(order') \in Nat /\ Len(order) <= Len(order')
           /\ \A t \in Targets : closers'[t] # closers[t] =>
                                    closers[t] = 0 /\ closers'[t] = Len(order) + 1
<1>1. CASE Next
  <2>1. PICK ev \in Event : Record(ev)
    BY <1>1, StepRecords DEF BoardInv
  <2>2. roster' \in [Members -> Roles]
    BY <1>1, StepRecords DEF BoardInv
  <2>3. BoardInv'
    BY <2>1, <2>2, RecordKeeps
  <2>4. /\ Len(order') = Len(order) + 1
        /\ \A i \in 1..MaxEntries :
              closers'[i] = IF i = ClosedBy(ev) /\ closers[i] = 0 THEN Len(order) + 1 ELSE closers[i]
    BY <2>1, RecordDoes
  <2>5. Len(order) \in Nat
    BY DEF BoardInv, TypeOK
  <2> QED
    BY <2>3, <2>4, <2>5 DEF Targets
<1>2. CASE UNCHANGED vars
  <2>1. BoardInv'
    BY <1>2 DEF vars, BoardInv, TypeOK, ClosersOnBoard, FirstCloserWins, ClosedBy
  <2>2. Len(order) \in Nat
    BY DEF BoardInv, TypeOK
  <2> QED
    BY <1>2, <2>1, <2>2 DEF vars
<1> QED
  BY <1>1, <1>2

LEMMA DeskStep ==
    ASSUME DeskInv, [DeskNext]_<<vars, cmd>>
    PROVE  DeskInv'
<1> USE DEF DeskInv
<1>1. CASE UNCHANGED <<vars, cmd>>
  BY <1>1 DEF vars, BoardInv, TypeOK, ClosersOnBoard, FirstCloserWins, ClosedBy, CmdTyped,
              Overtaken, Free
<1>2. CASE DeskNext
  <2>1. /\ BoardInv' /\ Len(order) \in Nat /\ Len(order') \in Nat /\ Len(order) <= Len(order')
        /\ \A t \in Targets : closers'[t] # closers[t] =>
                                 closers[t] = 0 /\ closers'[t] = Len(order) + 1
    BY <1>2, DeskStepsAreTheBoards, BoardGrows
  <2>2. CASE /\ DOMAIN cmd' = DOMAIN cmd /\ cmd'.what = cmd.what /\ cmd'.member = cmd.member
             /\ cmd'.target = cmd.target /\ cmd'.seen = cmd.seen
             /\ (cmd' = NoCommand) = (cmd = NoCommand)
    <3>1. CmdTyped'
      BY <2>1, <2>2 DEF CmdTyped, Free
    <3>2. Overtaken'
      <4> SUFFICES ASSUME ~Free PROVE closers'[cmd.target] = 0 \/ closers'[cmd.target] > cmd.seen
        BY <2>2 DEF Overtaken, Free
      <4>1. cmd.target \in Targets /\ cmd.seen \in Nat /\ cmd.seen <= Len(order)
        BY DEF CmdTyped
      <4>2. CASE closers'[cmd.target] = closers[cmd.target]
        BY <4>2 DEF Overtaken
      <4>3. CASE closers'[cmd.target] # closers[cmd.target]
        BY <2>1, <4>1, <4>3
      <4> QED
        BY <4>2, <4>3
    <3> QED
      BY <2>1, <3>1, <3>2
  <2>3. CASE cmd' = NoCommand
    <3>1. Free'
      BY <2>3 DEF Free
    <3>2. /\ cmd'.seen = 0 /\ cmd'.what = "none" /\ DOMAIN cmd' = DOMAIN NoCommand
      BY <2>3 DEF NoCommand
    <3>3. CmdTyped'
      BY <2>1, <3>1, <3>2 DEF CmdTyped, Closes
    <3> QED
      BY <2>1, <3>1, <3>3 DEF Overtaken
  <2>4. CASE /\ UNCHANGED vars
             /\ \E what \in DOMAIN Closes \union {"sign"}, t \in Targets : \E m, step :
                   /\ cmd' = Command(what, m, t, step) /\ closers[t] = 0
                   /\ what # "sign" => m \in Members
    <3>1. PICK what \in DOMAIN Closes \union {"sign"}, t \in Targets :
            \E m, step : /\ cmd' = Command(what, m, t, step) /\ closers[t] = 0
                         /\ what # "sign" => m \in Members
      BY <2>4
    <3>2. /\ cmd'.what = what /\ cmd'.target = t /\ cmd'.seen = Len(order)
          /\ DOMAIN cmd' = DOMAIN NoCommand
          /\ what # "sign" => cmd'.member \in Members
      BY <3>1 DEF Command, NoCommand
    <3>3. what # "none" /\ what # "run" /\ (what = "sign" => what \notin DOMAIN Closes)
      BY DEF Closes
    <3>4. CmdTyped'
      BY <2>1, <3>2, <3>3 DEF CmdTyped
    <3>5. Overtaken'
      BY <2>4, <3>1, <3>2 DEF Overtaken, vars
    <3> QED
      BY <2>1, <3>4, <3>5
  <2>5. CASE \E m \in Members, lane \in Lanes :
                /\ Record([Says("job", m) EXCEPT !.lane = lane])
                /\ cmd' = Command("run", m, Len(order) + 1, "child")
    <3>1. PICK m \in Members, lane \in Lanes :
                /\ Record([Says("job", m) EXCEPT !.lane = lane])
                /\ cmd' = Command("run", m, Len(order) + 1, "child")
      BY <2>5
    <3>2. /\ cmd'.what = "run" /\ cmd'.target = Len(order) + 1 /\ cmd'.seen = Len(order)
          /\ DOMAIN cmd' = DOMAIN NoCommand /\ cmd'.member = m
      BY <3>1 DEF Command, NoCommand
    <3>3. Len(order) + 1 \in Targets
      BY <2>1, <3>1, BoardAssumption DEF Record, Targets
    <3>4. CmdTyped'
      BY <2>1, <3>2, <3>3 DEF CmdTyped
    <3>5. Overtaken'
      <4>1. closers[Len(order) + 1] = 0
        BY <2>1, <3>3 DEF BoardInv, TypeOK, ClosersOnBoard, Targets
      <4>2. closers'[Len(order) + 1] \in {0, Len(order) + 1}
        BY <2>1, <3>3, <4>1
      <4> QED
        BY <2>1, <3>2, <4>2 DEF Overtaken
    <3> QED
      BY <2>1, <3>4, <3>5
  <2> QED
    BY <1>2, <2>2, <2>3, <2>4, <2>5, CommandSteps
<1> QED
  BY <1>1, <1>2

\* The invariant of the desk.
THEOREM DeskCorrect == DeskSpec => []DeskInv
<1>1. Init /\ DeskInit => DeskInv
  <2> SUFFICES ASSUME Init, DeskInit PROVE DeskInv
    OBVIOUS
  <2>1. BoardInv
    BY BoardAssumption
       DEF Init, BoardInv, TypeOK, ClosersOnBoard, FirstCloserWins, ClosedBy
  <2>2. Len(order) = 0
    BY DEF Init
  <2>3. CmdTyped /\ Overtaken
    BY <2>2 DEF DeskInit, CmdTyped, Overtaken, Free, NoCommand, Closes
  <2> QED
    BY <2>1, <2>3 DEF DeskInv
<1> QED
  BY <1>1, DeskStep, PTL DEF DeskSpec

\* The desk is a way to use the board: whatever the commands, their crashes and the
\* signer do, the flock sees a board that its rules allow, so everything that is shown
\* of the board holds beside them.
THEOREM DeskImplementsBoard == DeskSpec => Spec
<1>1. DeskInv /\ [DeskNext]_<<vars, cmd>> => [Next]_vars
  BY DeskStepsAreTheBoards DEF vars
<1> QED
  BY <1>1, DeskCorrect, PTL DEF DeskSpec, Spec

\* A command that closes something makes a conflict only when it was overtaken: what
\* closed its target came after the command had read the log (close::pick, run, sign_one).
THEOREM ConflictsAreRaces == DeskSpec => ConflictOnlyIfRaced
<1>1. ASSUME DeskInv, [DeskNext]_<<vars, cmd>>, ~Free, cmd' # cmd, order' # order
      PROVE  order'[Len(order')].conflict \notin 1..cmd.seen
  <2> USE <1>1 DEF DeskInv
  <2>1. PICK ev : Record(ev) /\ ev.ref = cmd.target
    <3>1. \/ \E outcome \in Outcomes, head \in Heads : EmitClose(outcome, head)
          \/ RunEnd \/ Submit
      BY DEF DeskNext, vars, PickLane, PickId, Picked, RunJob, Killed, SignShow, Declined, Sign,
             NotSubmitted, Answered, AnswerLost, Told, Reply
    <3>2. CASE \E outcome \in Outcomes, head \in Heads : EmitClose(outcome, head)
      <4>1. PICK outcome \in Outcomes, head \in Heads : EmitClose(outcome, head)
        BY <3>2
      <4> DEFINE result == [Says("result", cmd.member) EXCEPT !.ref = cmd.target, !.outcome = outcome]
                 verdict == [Says("verdict", cmd.member) EXCEPT !.ref = cmd.target, !.head = head]
      <4>2. Record(result) \/ Record(verdict)
        BY <4>1 DEF EmitClose, SendVia
      <4>3. result.ref = cmd.target /\ verdict.ref = cmd.target
        BY DEF Says
      <4> HIDE DEF result, verdict
      <4> QED
        BY <4>2, <4>3
    <3>3. CASE RunEnd
      BY <3>3 DEF RunEnd, SendVia, Says
    <3>4. CASE Submit
      BY <3>4 DEF Submit, Says
    <3> QED
      BY <3>1, <3>2, <3>3, <3>4
  <2>2. order \in Seq(Entry) /\ Len(order) \in Nat
    BY DEF BoardInv, TypeOK
  <2>3. order'[Len(order')].conflict = FirstCloser(ev)
    <3> HIDE DEF Entry
    <3> QED
      BY <2>1, <2>2 DEF Record
  <2>4. FirstCloser(ev) = 0 \/ FirstCloser(ev) = closers[cmd.target]
    BY <2>1 DEF FirstCloser, ClosedBy
  <2> QED
    BY <2>3, <2>4 DEF Overtaken, CmdTyped
<1>2. DeskInv /\ [DeskNext]_<<vars, cmd>> =>
        [(~Free /\ cmd' # cmd /\ order' # order) =>
            order'[Len(order')].conflict \notin 1..cmd.seen]_<<vars, cmd>>
  BY <1>1
<1> QED
  BY <1>2, DeskCorrect, PTL DEF DeskSpec, ConflictOnlyIfRaced

-----------------------------------------------------------------------------
(* The terminal view: the inductive invariant. *)

LogRecords == [kind : LogKinds, of : Int, file : Files \union {NoFile}]
LinkStates == {"none", "stale", "live", "failed", "unsaved"}
Messages == [what : {"model", "drift"}, n : Nat, link : LinkStates, files : SUBSET Files]
AppFields == {"shown", "link", "tab", "sel", "follow", "panel", "history", "filter", "cursor",
              "drift", "fed"}

TuiTyped ==
    /\ log \in Seq(LogRecords)
    /\ feed \in [runs : BOOLEAN, live : BOOLEAN]
    /\ queue \in Seq(Messages)
    /\ DOMAIN app = AppFields
    /\ app.shown \in 0..Len(log) /\ app.fed \in BOOLEAN
    /\ inbox \in Seq(SUBSET Files)
    /\ checking \in Seq(SUBSET Files) /\ Len(checking) <= 1
    /\ app.tab \in Tabs \union {"closed"}
    /\ app.fed => Open

NoneOf(q, k) == \A i \in DOMAIN q : q[i].what # k

\* The last message of a kind in a channel.
NewestIs(q, k, i) ==
    /\ i \in DOMAIN q /\ q[i].what = k
    /\ \A j \in DOMAIN q : j > i => q[j].what # k

\* The models come in the order of the log, and the view is behind them all.
ModelsAscend ==
    /\ \A i \in DOMAIN queue : queue[i].what = "model" =>
          app.shown <= queue[i].n /\ queue[i].n <= Len(log)
    /\ \A i, j \in DOMAIN queue :
          queue[i].what = "model" /\ queue[j].what = "model" /\ i < j => queue[i].n <= queue[j].n

IsCurrent(n, link) == n = Len(log) /\ (link = "live" <=> feed.runs /\ feed.live)

\* The last model sent is of all that was verified, and says how the feed is.
LastModelIsCurrent ==
    Open => /\ NoneOf(queue, "model") => IsCurrent(app.shown, app.link)
            /\ \A i \in DOMAIN queue :
                  NewestIs(queue, "model", i) => IsCurrent(queue[i].n, queue[i].link)

\* The last check asked for, still to be made, under way, on its way or shown, is of
\* these files.
LastCheckIs(files) ==
    /\ inbox # <<>> => inbox[Len(inbox)] = files
    /\ inbox = <<>> /\ checking # Idle => checking[1] = files
    /\ inbox = <<>> /\ checking = Idle =>
          /\ NoneOf(queue, "drift") => app.drift = files
          /\ \A i \in DOMAIN queue : NewestIs(queue, "drift", i) => queue[i].files = files

\* It is of what the view shows.  Before the first model nothing needs to be checked.
LastCheckIsOfTheView ==
    Open => /\ app.fed => asked = Cited(app.shown) /\ LastCheckIs(asked)
            /\ ~app.fed => asked = {} /\ (LastCheckIs({}) \/ LastCheckIs(Cited(app.shown)))

TuiInv == TuiTyped /\ ModelsAscend /\ LastModelIsCurrent /\ LastCheckIsOfTheView

-----------------------------------------------------------------------------
(* The terminal view: channels and cited files. *)

LEMMA Sent ==
    ASSUME NEW q \in Seq(Messages), NEW m \in Messages, NEW r, r = Append(q, m)
    PROVE  /\ r \in Seq(Messages) /\ DOMAIN q = 1..Len(q) /\ Len(q) \in Nat
           /\ DOMAIN r = 1..Len(q) + 1
           /\ \A i \in DOMAIN q : r[i] = q[i]
           /\ r[Len(q) + 1] = m
OBVIOUS

LEMMA SentIsNewest ==
    ASSUME NEW q \in Seq(Messages), NEW m \in Messages, NEW r, r = Append(q, m), NEW k, NEW i
    PROVE  /\ NoneOf(r, k) <=> NoneOf(q, k) /\ m.what # k
           /\ m.what = k => (NewestIs(r, k, i) <=> i = Len(q) + 1)
           /\ m.what # k => (NewestIs(r, k, i) <=> NewestIs(q, k, i))
<1>1. /\ DOMAIN q = 1..Len(q) /\ Len(q) \in Nat /\ DOMAIN r = 1..Len(q) + 1
      /\ \A j \in DOMAIN q : r[j] = q[j]
      /\ r[Len(q) + 1] = m
  BY Sent
<1>2. \A j : j \in DOMAIN r <=> j \in DOMAIN q \/ j = Len(q) + 1
  BY <1>1
<1>3. \A j \in DOMAIN q : j < Len(q) + 1 /\ ~(j > Len(q) + 1) /\ j # Len(q) + 1
  BY <1>1
<1>4. NoneOf(r, k) <=> NoneOf(q, k) /\ m.what # k
  BY <1>1, <1>2 DEF NoneOf
<1>5. CASE i = Len(q) + 1
  <2>1. \A j \in DOMAIN r : ~(j > i)
    BY <1>1, <1>5
  <2>2. i \in DOMAIN r /\ r[i] = m /\ i \notin DOMAIN q
    BY <1>1, <1>2, <1>3, <1>5
  <2> QED
    BY <1>4, <1>5, <2>1, <2>2 DEF NewestIs
<1>6. CASE i # Len(q) + 1
  <2>1. i \in DOMAIN r <=> i \in DOMAIN q
    BY <1>2, <1>6
  <2>2. CASE i \in DOMAIN q
    <3>1. r[i] = q[i] /\ Len(q) + 1 > i
      BY <1>1, <1>3, <2>2
    <3>2. (\A j \in DOMAIN r : j > i => r[j].what # k) <=>
          (\A j \in DOMAIN q : j > i => q[j].what # k) /\ m.what # k
      BY <1>1, <1>2, <3>1
    <3> QED
      BY <1>4, <1>6, <2>1, <2>2, <3>1, <3>2 DEF NewestIs
  <2> QED
    BY <1>4, <1>6, <2>1, <2>2 DEF NewestIs
<1> QED
  BY <1>5, <1>6

LEMMA Received ==
    ASSUME NEW q \in Seq(Messages), q # <<>>, NEW r, r = Tail(q)
    PROVE  /\ r \in Seq(Messages) /\ DOMAIN q = 1..Len(q) /\ Len(q) \in Nat /\ 1 \in DOMAIN q
           /\ q[1] \in Messages /\ Head(q) = q[1]
           /\ DOMAIN r = 1..Len(q) - 1
           /\ \A i \in DOMAIN r : i \in Nat /\ i + 1 \in DOMAIN q /\ r[i] = q[i + 1]
<1>1. DOMAIN q = 1..Len(q) /\ Len(q) \in Nat /\ Len(q) # 0
  OBVIOUS
<1>2. 1 \in DOMAIN q /\ q[1] \in Messages /\ Head(q) = q[1]
  BY <1>1
<1>3. r \in Seq(Messages) /\ Len(r) = Len(q) - 1 /\ DOMAIN r = 1..Len(r)
  BY <1>1
<1>4. \A i \in 1..(Len(q) - 1) : i \in Nat /\ i + 1 \in DOMAIN q /\ r[i] = q[i + 1]
  BY <1>1
<1> QED
  BY <1>1, <1>2, <1>3, <1>4

LEMMA NewestReceived ==
    ASSUME NEW q \in Seq(Messages), q # <<>>, NEW r, r = Tail(q), NEW k, NEW i
    PROVE  /\ NoneOf(r, k) /\ q[1].what = k => NewestIs(q, k, 1)
           /\ NoneOf(r, k) /\ q[1].what # k => NoneOf(q, k)
           /\ NewestIs(r, k, i) => NewestIs(q, k, i + 1)
<1>1. /\ DOMAIN q = 1..Len(q) /\ Len(q) \in Nat /\ 1 \in DOMAIN q
      /\ DOMAIN r = 1..Len(q) - 1
      /\ \A j \in DOMAIN r : j \in Nat /\ j + 1 \in DOMAIN q /\ r[j] = q[j + 1]
  BY Received
<1>2. \A j \in DOMAIN q : j = 1 \/ (j - 1 \in DOMAIN r /\ r[j - 1] = q[j] /\ j > 1)
  BY <1>1
<1>3. ASSUME NoneOf(r, k)
      PROVE  /\ q[1].what = k => NewestIs(q, k, 1)
             /\ q[1].what # k => NoneOf(q, k)
  <2>1. \A j \in DOMAIN q : j > 1 => q[j].what # k
    BY <1>1, <1>2, <1>3 DEF NoneOf
  <2>2. CASE q[1].what = k
    BY <1>1, <2>1, <2>2 DEF NewestIs
  <2>3. CASE q[1].what # k
    BY <1>2, <2>1, <2>3 DEF NoneOf
  <2> QED
    BY <2>2, <2>3
<1>4. ASSUME NewestIs(r, k, i)
      PROVE  NewestIs(q, k, i + 1)
  <2>1. i \in DOMAIN r /\ r[i].what = k
    BY <1>4 DEF NewestIs
  <2>2. i + 1 \in DOMAIN q /\ q[i + 1].what = k
    BY <1>1, <2>1
  <2>3. ASSUME NEW j \in DOMAIN q, j > i + 1 PROVE q[j].what # k
    <3>1. j - 1 \in DOMAIN r /\ r[j - 1] = q[j] /\ j - 1 > i
      BY <1>1, <1>2, <2>1, <2>3
    <3> QED
      BY <1>4, <3>1 DEF NewestIs
  <2> QED
    BY <2>2, <2>3 DEF NewestIs
<1> QED
  BY <1>3, <1>4

\* What the first events cite: some of the files, more of them with more events, and
\* the same when the log grows.
LEMMA CitedFiles ==
    ASSUME NEW l \in Seq(LogRecords), log = l, NEW n \in 0..Len(l), NEW m \in 0..Len(l), m <= n
    PROVE  Cited(n) \subseteq Files /\ Cited(m) \subseteq Cited(n)
<1>1. Len(l) \in Nat /\ \A i \in 1..Len(l) : l[i] \in LogRecords
  OBVIOUS
<1>2. \A i \in 1..n : i \in 1..Len(l)
  BY <1>1
<1>3. \A i \in 1..m : i \in 1..n
  BY <1>1
<1>4. \A i \in 1..n : l[i].file \in Files \union {NoFile}
  BY <1>1, <1>2 DEF LogRecords
<1> QED
  BY <1>3, <1>4 DEF Cited

LEMMA CitedStays ==
    ASSUME log \in Seq(LogRecords), NEW e \in LogRecords, log' = Append(log, e),
           NEW n \in 0..Len(log)
    PROVE  {log'[i].file : i \in 1..n} \ {NoFile} = Cited(n)
<1> HIDE DEF LogRecords
<1>1. Len(log) \in Nat /\ \A i \in 1..Len(log) : log'[i] = log[i]
  OBVIOUS
<1>2. \A i \in 1..n : log'[i] = log[i]
  BY <1>1
<1> QED
  BY <1>2 DEF Cited

-----------------------------------------------------------------------------
(* The terminal view: each step keeps it. *)

LEMMA InitTui == TuiInit => TuiInv
<1> SUFFICES ASSUME TuiInit PROVE TuiInv
  OBVIOUS
<1>1. log \in Seq(LogRecords) /\ Len(log) \in Nat
  <2>1. CASE log = <<>>
    BY <2>1
  <2>2. CASE log # <<>>
    <3>1. PICK f \in Files : log = <<[kind |-> "ask", of |-> 0, file |-> f]>>
      BY <2>2 DEF TuiInit
    <3>2. PICK e : e = [kind |-> "ask", of |-> 0, file |-> f]
      OBVIOUS
    <3>3. e \in LogRecords /\ log = <<e>>
      BY <3>1, <3>2 DEF LogRecords, LogKinds
    <3> HIDE DEF LogRecords
    <3> QED
      BY <3>3
  <2> QED
    BY <2>1, <2>2
<1>2. /\ DOMAIN app = AppFields /\ app.shown = Len(log) /\ app.link = "stale"
      /\ app.fed = FALSE /\ app.drift = {} /\ app.tab = "lists"
  <2>1. PICK x : app = [[shown |-> Len(log), link |-> "stale", tab |-> "lists", sel |-> 1,
                     follow |-> TRUE, panel |-> FALSE, history |-> <<>>, filter |-> All,
                     cursor |-> 1, drift |-> {}, fed |-> FALSE] EXCEPT !.sel = x]
    BY DEF TuiInit, Settle
  <2> QED
    BY <2>1 DEF AppFields
<1>3. /\ queue = <<>> /\ inbox = <<>> /\ checking = Idle /\ asked = {}
      /\ feed = [runs |-> TRUE, live |-> FALSE]
  BY DEF TuiInit
<1>4. /\ Len(queue) = 0 /\ Len(checking) = 0 /\ DOMAIN queue = {}
      /\ queue \in Seq(Messages) /\ inbox \in Seq(SUBSET Files)
      /\ checking \in Seq(SUBSET Files)
  BY <1>3 DEF Idle
<1>5. TuiTyped
  <2>1. feed \in [runs : BOOLEAN, live : BOOLEAN]
    BY <1>3
  <2>2. app.shown \in 0..Len(log)
    BY <1>1, <1>2
  <2>3. Open
    BY <1>2 DEF Open
  <2>4. app.fed \in BOOLEAN
    BY <1>2
  <2> HIDE DEF LogRecords, Messages
  <2> QED
    BY <1>1, <1>2, <1>4, <2>1, <2>2, <2>3, <2>4 DEF TuiTyped, Tabs
<1>6. ModelsAscend /\ LastModelIsCurrent
  BY <1>2, <1>3, <1>4 DEF ModelsAscend, LastModelIsCurrent, IsCurrent
<1>7. LastCheckIsOfTheView
  BY <1>2, <1>3, <1>4 DEF LastCheckIsOfTheView, LastCheckIs
<1> QED
  BY <1>5, <1>6, <1>7 DEF TuiInv

\* The view's channel after a message is sent to it.
LEMMA QueueAfterSend ==
    ASSUME queue \in Seq(Messages), NEW m \in Messages, queue' = Append(queue, m)
    PROVE  /\ queue' \in Seq(Messages) /\ DOMAIN queue = 1..Len(queue) /\ Len(queue) \in Nat
           /\ DOMAIN queue' = 1..Len(queue) + 1
           /\ \A i \in DOMAIN queue : queue'[i] = queue[i]
           /\ queue'[Len(queue) + 1] = m
           /\ \A k : NoneOf(queue', k) <=> NoneOf(queue, k) /\ m.what # k
           /\ \A k, i : m.what = k => (NewestIs(queue', k, i) <=> i = Len(queue) + 1)
           /\ \A k, i : m.what # k => (NewestIs(queue', k, i) <=> NewestIs(queue, k, i))
<1>1. PICK q \in Seq(Messages) : q = queue
  OBVIOUS
<1>2. PICK r : r = queue'
  OBVIOUS
<1>3. r = Append(q, m)
  BY <1>1, <1>2
<1>4. /\ r \in Seq(Messages) /\ DOMAIN q = 1..Len(q) /\ Len(q) \in Nat
      /\ DOMAIN r = 1..Len(q) + 1
      /\ \A i \in DOMAIN q : r[i] = q[i]
      /\ r[Len(q) + 1] = m
  BY <1>3, Sent
<1>5. ASSUME NEW k, NEW i
      PROVE  /\ NoneOf(r, k) <=> NoneOf(q, k) /\ m.what # k
             /\ m.what = k => (NewestIs(r, k, i) <=> i = Len(q) + 1)
             /\ m.what # k => (NewestIs(r, k, i) <=> NewestIs(q, k, i))
  BY <1>3, SentIsNewest
<1>6. \A k : NoneOf(queue', k) <=> NoneOf(queue, k) /\ m.what # k
  BY <1>1, <1>2, <1>5
<1>7. \A k, i : /\ m.what = k => (NewestIs(queue', k, i) <=> i = Len(queue) + 1)
                /\ m.what # k => (NewestIs(queue', k, i) <=> NewestIs(queue, k, i))
  BY <1>1, <1>2, <1>5
<1> QED
  BY <1>1, <1>2, <1>4, <1>6, <1>7

\* The view needs the same check as before the step.
LEMMA SameCheckNeeded ==
    ASSUME LastCheckIsOfTheView, Open, UNCHANGED asked, app'.fed = app.fed, app.fed \in BOOLEAN,
           NEW x, Cited(app.shown) = x, Cited(app.shown)' = x,
           \A files : LastCheckIs(files) => LastCheckIs(files)'
    PROVE  LastCheckIsOfTheView'
<1>1. PICK y : y = asked
  OBVIOUS
<1>2. CASE app.fed
  <2>1. y = x /\ LastCheckIs(y)'
    BY <1>1, <1>2 DEF LastCheckIsOfTheView
  <2>2. LastCheckIs(asked)'
    BY <1>1, <2>1 DEF LastCheckIs
  <2> QED
    BY <1>1, <1>2, <2>1, <2>2 DEF LastCheckIsOfTheView
<1>3. CASE ~app.fed
  <2>1. y = {} /\ (LastCheckIs({})' \/ LastCheckIs(x)')
    BY <1>1, <1>3 DEF LastCheckIsOfTheView
  <2>2. LastCheckIs(x)' => LastCheckIs(Cited(app.shown))'
    BY DEF LastCheckIs
  <2> QED
    BY <1>1, <1>3, <2>1, <2>2 DEF LastCheckIsOfTheView
<1> QED
  BY <1>2, <1>3

\* The feed sends a model of all it has verified.
LEMMA FeedKeeps ==
    ASSUME TuiInv, \/ \E e \in LogEvent : FeedFrame(e)
                   \/ FeedCaught
                   \/ \E link \in {"stale", "failed", "unsaved"} : FeedEnds(link)
    PROVE  TuiInv'
<1> USE DEF TuiInv
<1>1. log \in Seq(LogRecords) /\ Len(log) \in Nat /\ queue \in Seq(Messages)
  BY DEF TuiTyped
<1>2. feed \in [runs : BOOLEAN, live : BOOLEAN]
  BY DEF TuiTyped
<1>3. Open /\ UNCHANGED <<app, asked, inbox, checking>>
  BY DEF FeedFrame, FeedCaught, FeedEnds
<1>4. PICK n \in Nat, link \in LinkStates :
        /\ queue' = Append(queue, ModelMsg(n, link))
        /\ log' \in Seq(LogRecords) /\ n = Len(log') /\ Len(log) <= n
        /\ link = "live" <=> feed'.runs /\ feed'.live
        /\ feed' \in [runs : BOOLEAN, live : BOOLEAN]
        /\ log' = log \/ \E e \in LogRecords : log' = Append(log, e)
  <2>1. CASE \E e \in LogEvent : FeedFrame(e)
    <3>1. PICK e \in LogEvent : FeedFrame(e)
      BY <2>1
    <3>2. e \in LogRecords
      BY DEF LogEvent, LogRecords
    <3>3. PICK link \in {"live", "stale"} : link = IF feed.live THEN "live" ELSE "stale"
      OBVIOUS
    <3>4. /\ log' = Append(log, e) /\ feed' = feed /\ feed.runs
          /\ queue' = Append(queue, ModelMsg(Len(log) + 1, link))
      BY <3>1, <3>3 DEF FeedFrame, Send
    <3>5. log' \in Seq(LogRecords) /\ Len(log') = Len(log) + 1 /\ Len(log) + 1 \in Nat
      BY <1>1, <3>2, <3>4
    <3>6. link \in LinkStates /\ (link = "live" <=> feed'.runs /\ feed'.live)
      BY <1>2, <3>3, <3>4 DEF LinkStates
    <3>7. PICK n \in Nat : n = Len(log) + 1 /\ n = Len(log') /\ Len(log) <= n
      BY <1>1, <3>5
    <3>8. queue' = Append(queue, ModelMsg(n, link))
      BY <3>4, <3>7
    <3> HIDE DEF LogRecords
    <3> QED
      BY <1>2, <3>2, <3>4, <3>5, <3>6, <3>7, <3>8
  <2>2. CASE FeedCaught
    <3>1. /\ log' = log /\ feed' = [feed EXCEPT !.live = TRUE] /\ feed.runs
          /\ queue' = Append(queue, ModelMsg(Len(log), "live"))
      BY <2>2 DEF FeedCaught, Send
    <3>2. /\ feed' \in [runs : BOOLEAN, live : BOOLEAN] /\ feed'.runs /\ feed'.live
      BY <1>2, <3>1
    <3>3. "live" \in LinkStates
      BY DEF LinkStates
    <3> QED
      BY <1>1, <3>1, <3>2, <3>3
  <2>3. CASE \E link \in {"stale", "failed", "unsaved"} : FeedEnds(link)
    <3>1. PICK link \in {"stale", "failed", "unsaved"} : FeedEnds(link)
      BY <2>3
    <3>2. /\ log' = log /\ feed' = [feed EXCEPT !.runs = FALSE]
          /\ queue' = Append(queue, ModelMsg(Len(log), link))
      BY <3>1 DEF FeedEnds, Send
    <3>3. feed' \in [runs : BOOLEAN, live : BOOLEAN] /\ ~feed'.runs
      BY <1>2, <3>2
    <3>4. link \in LinkStates /\ link # "live"
      BY DEF LinkStates
    <3> QED
      BY <1>1, <3>2, <3>3, <3>4
  <2> QED
    BY <2>1, <2>2, <2>3
<1>5. PICK m \in Messages : m = ModelMsg(n, link) /\ m.what = "model" /\ m.n = n /\ m.link = link
  <2>1. PICK none \in SUBSET Files : none = {}
    OBVIOUS
  <2>2. PICK m : m = [what |-> "model", n |-> n, link |-> link, files |-> none]
    OBVIOUS
  <2>3. m \in Messages /\ m.what = "model" /\ m.n = n /\ m.link = link
    BY <2>2 DEF Messages
  <2>4. m = ModelMsg(n, link)
    BY <2>1, <2>2 DEF ModelMsg
  <2> QED
    BY <2>3, <2>4
<1>6. /\ queue' \in Seq(Messages) /\ DOMAIN queue = 1..Len(queue) /\ Len(queue) \in Nat
      /\ DOMAIN queue' = 1..Len(queue) + 1
      /\ \A i \in DOMAIN queue : queue'[i] = queue[i]
      /\ queue'[Len(queue) + 1] = m
      /\ \A k : NoneOf(queue', k) <=> NoneOf(queue, k) /\ m.what # k
      /\ \A k, i : m.what = k => (NewestIs(queue', k, i) <=> i = Len(queue) + 1)
      /\ \A k, i : m.what # k => (NewestIs(queue', k, i) <=> NewestIs(queue, k, i))
  BY <1>1, <1>4, <1>5, QueueAfterSend
<1>7. app.shown \in 0..Len(log) /\ app.shown \in Nat /\ Len(log') \in Nat
  BY <1>1, <1>4 DEF TuiTyped
<1>8. TuiTyped'
  <2>1. app'.shown \in 0..Len(log')
    BY <1>1, <1>3, <1>4, <1>7
  <2> HIDE DEF LogRecords, Messages
  <2> QED
    BY <1>3, <1>4, <1>6, <2>1 DEF TuiTyped, Open
<1>9. ModelsAscend'
  <2>1. \A i \in DOMAIN queue : queue[i].n \in Nat
    <3>1. \A i \in DOMAIN queue : queue[i] \in Messages
      BY <1>1
    <3> QED
      BY <3>1 DEF Messages
  <2>2. \A i \in DOMAIN queue : queue[i].what = "model" =>
            app.shown <= queue[i].n /\ queue[i].n <= n /\ queue[i].n <= Len(log')
    BY <1>1, <1>4, <2>1 DEF ModelsAscend
  <2>3. \A i \in DOMAIN queue' : i \in DOMAIN queue \/ (i = Len(queue) + 1 /\ queue'[i].n = n)
    BY <1>5, <1>6
  <2>4. app.shown <= n /\ n <= Len(log')
    BY <1>1, <1>4, <1>7
  <2>5. ASSUME NEW i \in DOMAIN queue', queue'[i].what = "model"
        PROVE  app'.shown <= queue'[i].n /\ queue'[i].n <= Len(log')
    BY <1>3, <1>6, <2>2, <2>3, <2>4, <2>5
  <2>6. ASSUME NEW i \in DOMAIN queue', NEW j \in DOMAIN queue', queue'[i].what = "model",
               queue'[j].what = "model", i < j
        PROVE  queue'[i].n <= queue'[j].n
    <3>1. i \in DOMAIN queue
      BY <1>6, <2>6
    <3>2. CASE j \in DOMAIN queue
      BY <1>6, <2>6, <3>1, <3>2 DEF ModelsAscend
    <3>3. CASE j \notin DOMAIN queue
      BY <1>6, <2>2, <2>3, <2>6, <3>1, <3>3
    <3> QED
      BY <3>2, <3>3
  <2> QED
    BY <2>5, <2>6 DEF ModelsAscend
<1>10. LastModelIsCurrent'
  BY <1>4, <1>5, <1>6 DEF LastModelIsCurrent, IsCurrent
<1>11. LastCheckIsOfTheView'
  <2>1. PICK x \in 0..Len(log) : x = app.shown
    BY <1>7
  <2>2. Cited(app.shown)' = Cited(x)
    <3>1. Cited(app.shown)' = {log'[i].file : i \in 1..x} \ {NoFile}
      BY <1>3, <2>1 DEF Cited
    <3>2. CASE log' = log
      BY <3>1, <3>2 DEF Cited
    <3>3. CASE log' # log
      BY <1>1, <1>4, <3>1, <3>3, CitedStays
    <3> QED
      BY <3>2, <3>3
  <2>3. \A files : LastCheckIs(files) => LastCheckIs(files)'
    <3>1. NoneOf(queue, "drift")' <=> NoneOf(queue, "drift")
      BY <1>5, <1>6
    <3>2. \A i : NewestIs(queue', "drift", i) => NewestIs(queue, "drift", i) /\ i \in DOMAIN queue
      BY <1>5, <1>6 DEF NewestIs
    <3> QED
      BY <1>3, <1>6, <3>1, <3>2 DEF LastCheckIs
  <2>4. PICK c : c = Cited(x)
    OBVIOUS
  <2>5. Cited(app.shown) = c /\ Cited(app.shown)' = c
    BY <2>1, <2>2, <2>4
  <2>6. app.fed \in BOOLEAN /\ app'.fed = app.fed
    BY <1>3 DEF TuiTyped
  <2> QED
    BY <1>3, <2>3, <2>5, <2>6, SameCheckNeeded
<1> QED
  BY <1>8, <1>9, <1>10, <1>11


\* What a key leaves as it is.
SameView(b, a) ==
    /\ DOMAIN b = DOMAIN a /\ b.shown = a.shown /\ b.link = a.link /\ b.drift = a.drift
    /\ b.fed = a.fed /\ b.tab = a.tab

LEMMA MovesKeepTheView ==
    ASSUME NEW a, NEW c, SameView(c, a), DOMAIN a = AppFields, NEW by
    PROVE  SameView(Settle(c), a) /\ SameView(Move(c, by), a)
<1>1. \A x : SameView([c EXCEPT !.sel = x], a)
  BY DEF SameView, AppFields
<1> QED
  BY <1>1 DEF Settle, Move

LEMMA KeysKeepTheView ==
    ASSUME NEW a, DOMAIN a = AppFields, NEW key
    PROVE  SameView(StreamKey(a, key), a) /\ SameView(PanelKey(a, key), a)
           /\ SameView(WaitKey(a, key), a)
<1> USE DEF AppFields
<1>1. SameView(a, a)
  BY DEF SameView
<1>2. \A x, y, z : /\ SameView([a EXCEPT !.follow = x], a)
                   /\ SameView([a EXCEPT !.history = x], a)
                   /\ SameView([a EXCEPT !.filter = x], a)
                   /\ SameView([a EXCEPT !.panel = x], a)
                   /\ SameView([a EXCEPT !.cursor = x], a)
  BY DEF SameView
<1>3. \A x, y : /\ SameView([a EXCEPT !.follow = x, !.sel = y], a)
                /\ SameView([a EXCEPT !.panel = x, !.history = y], a)
                /\ SameView([a EXCEPT !.follow = x, !.history = y], a)
                /\ SameView([a EXCEPT !.sel = x, !.history = y], a)
  BY DEF SameView
<1>4. \A x, y, z, w : SameView([a EXCEPT !.follow = x, !.history = y, !.sel = z, !.filter = w], a)
  BY DEF SameView
<1>5. SameView(StreamKey(a, key), a)
  BY <1>1, <1>2, <1>3, MovesKeepTheView DEF StreamKey
<1>6. SameView(PanelKey(a, key), a)
  BY <1>1, <1>2, <1>3, <1>4, MovesKeepTheView DEF PanelKey, Jump
<1>7. SameView(WaitKey(a, key), a)
  BY <1>1, <1>2 DEF WaitKey
<1> QED
  BY <1>5, <1>6, <1>7


\* A step of the UI that changes nothing of what its threads are about.
LEMMA ViewKept ==
    ASSUME TuiInv, UNCHANGED <<log, feed, queue, asked, inbox, checking>>, Open, app'.tab \in Tabs,
           DOMAIN app' = DOMAIN app, app'.shown = app.shown, app'.link = app.link,
           app'.drift = app.drift, app'.fed = app.fed
    PROVE  TuiInv'
<1> USE DEF TuiInv
<1>0. Open'
  BY DEF Open, Tabs
<1>1. TuiTyped'
  BY <1>0 DEF TuiTyped
<1>2. ModelsAscend'
  BY DEF ModelsAscend
<1>3. LastModelIsCurrent'
  BY DEF LastModelIsCurrent, IsCurrent, NoneOf, NewestIs
<1>4. PICK x : x = Cited(app.shown) /\ Cited(app.shown)' = x
  BY DEF Cited
<1>5. app.fed \in BOOLEAN
  BY DEF TuiTyped
<1>6. \A files : LastCheckIs(files) => LastCheckIs(files)'
  BY DEF LastCheckIs, NoneOf, NewestIs
<1>7. LastCheckIsOfTheView'
  BY <1>4, <1>5, <1>6, SameCheckNeeded
<1> QED
  BY <1>1, <1>2, <1>3, <1>7

LEMMA PressKeeps ==
    ASSUME TuiInv, (\E key \in Keys : PressKey(key)) \/ (\E tab \in Tabs : PressTab(tab))
    PROVE  TuiInv'
<1>1. Open /\ UNCHANGED <<log, feed, queue, asked, inbox, checking>>
  BY DEF PressKey, PressTab
<1>2. DOMAIN app = AppFields
  BY DEF TuiInv, TuiTyped
<1>3. CASE \E key \in Keys : PressKey(key)
  <2>1. PICK key \in Keys : PressKey(key)
    BY <1>3
  <2>2. PICK a : a = app
    OBVIOUS
  <2>3. app.tab = "stream" \/ app.tab = "lists"
    BY <1>1 DEF TuiInv, TuiTyped, Tabs, Open
  <2>4. SameView(app', a)
    BY <1>2, <2>1, <2>2, <2>3, KeysKeepTheView DEF PressKey
  <2>5. app'.tab \in Tabs
    BY <2>2, <2>3, <2>4 DEF SameView, Tabs
  <2> QED
    BY <1>1, <2>2, <2>4, <2>5, ViewKept DEF SameView
<1>4. CASE \E tab \in Tabs : PressTab(tab)
  <2>1. PICK tab \in Tabs : app' = [app EXCEPT !.tab = tab]
    BY <1>4 DEF PressTab
  <2>2. /\ DOMAIN app' = DOMAIN app /\ app'.shown = app.shown /\ app'.link = app.link
        /\ app'.drift = app.drift /\ app'.fed = app.fed /\ app'.tab = tab
    BY <1>2, <2>1 DEF AppFields
  <2> QED
    BY <1>1, <2>2, ViewKept
<1> QED
  BY <1>3, <1>4

\* The program is closed.
LEMMA QuitKeeps ==
    ASSUME TuiInv, PressQuit
    PROVE  TuiInv'
<1> USE DEF TuiInv
<1>1. /\ queue' = <<>> /\ inbox' = <<>> /\ checking' = Idle /\ UNCHANGED <<log, feed>>
  BY DEF PressQuit
<1>2. /\ DOMAIN app' = DOMAIN app /\ app'.tab = "closed" /\ app'.fed = FALSE
      /\ app'.shown = app.shown
  BY DEF PressQuit, TuiTyped, AppFields
<1>3. /\ queue' \in Seq(Messages) /\ inbox' \in Seq(SUBSET Files) /\ checking' \in Seq(SUBSET Files)
      /\ Len(checking') <= 1 /\ DOMAIN queue' = {}
  BY <1>1 DEF Idle
<1>4. app'.fed \in BOOLEAN /\ ~app'.fed
  BY <1>2
<1>5. TuiTyped'
  BY <1>1, <1>2, <1>3, <1>4 DEF TuiTyped
<1>6. ~Open'
  BY <1>2 DEF Open
<1> QED
  BY <1>3, <1>5, <1>6 DEF ModelsAscend, LastModelIsCurrent, LastCheckIsOfTheView


\* The checker takes the newest request, or a request to look again is put to it.
LEMMA AskedKeeps ==
    ASSUME TuiInv, CheckNewest \/ PressRecheck
    PROVE  TuiInv'
<1> USE DEF TuiInv
<1>1. UNCHANGED <<log, feed, queue, app, asked>> /\ inbox \in Seq(SUBSET Files) /\ Len(inbox) \in Nat
  BY DEF CheckNewest, PressRecheck, TuiTyped
<1>2. ModelsAscend'
  BY <1>1 DEF ModelsAscend
<1>3. LastModelIsCurrent'
  BY <1>1 DEF LastModelIsCurrent, IsCurrent, NoneOf, NewestIs, Open
<1>4. PICK x \in SUBSET Files : x = Cited(app.shown)
  BY CitedFiles DEF TuiTyped
<1>5. Open /\ Cited(app.shown)' = x
  BY <1>1, <1>4 DEF CheckNewest, PressRecheck, Open, Cited
<1>6. CASE CheckNewest
  <2>1. PICK f \in SUBSET Files : f = inbox[Len(inbox)] /\ inbox # <<>>
    BY <1>1, <1>6 DEF CheckNewest
  <2>2. checking' = <<f>> /\ inbox' = <<>>
    BY <1>6, <2>1 DEF CheckNewest, Last
  <2>3. /\ checking' \in Seq(SUBSET Files) /\ Len(checking') = 1 /\ checking'[1] = f
        /\ inbox' \in Seq(SUBSET Files) /\ checking' # Idle
    BY <2>2 DEF Idle
  <2>4. TuiTyped'
    BY <1>1, <2>3 DEF TuiTyped, Open
  <2>5. \A files : LastCheckIs(files) => LastCheckIs(files)'
    BY <2>1, <2>2, <2>3 DEF LastCheckIs
  <2>6. LastCheckIsOfTheView'
    <3>1. app.fed \in BOOLEAN /\ app'.fed = app.fed
      BY <1>1 DEF TuiTyped
    <3> QED
      BY <1>1, <1>4, <1>5, <2>5, <3>1, SameCheckNeeded
  <2> QED
    BY <1>2, <1>3, <2>4, <2>6
<1>7. CASE PressRecheck
  <2>1. inbox' = Append(inbox, x) /\ UNCHANGED checking
    BY <1>4, <1>7 DEF PressRecheck
  <2>2. /\ inbox' \in Seq(SUBSET Files) /\ Len(inbox') = Len(inbox) + 1 /\ inbox' # <<>>
        /\ inbox'[Len(inbox')] = x
    BY <1>1, <2>1
  <2>3. TuiTyped'
    BY <1>1, <2>1, <2>2 DEF TuiTyped, Open
  <2>4. LastCheckIs(x)'
    BY <2>2 DEF LastCheckIs
  <2>5. LastCheckIsOfTheView'
    <3>1. LastCheckIs(Cited(app.shown))'
      BY <1>5, <2>4 DEF LastCheckIs
    <3>2. app.fed => asked' = x
      BY <1>1, <1>4, <1>5 DEF LastCheckIsOfTheView
    <3>3. app.fed => LastCheckIs(asked)'
      BY <2>4, <3>2 DEF LastCheckIs
    <3>4. ~app.fed => asked' = {}
      BY <1>1, <1>5 DEF LastCheckIsOfTheView
    <3> QED
      BY <1>1, <1>5, <3>1, <3>2, <3>3, <3>4 DEF LastCheckIsOfTheView
  <2> QED
    BY <1>2, <1>3, <2>3, <2>5
<1> QED
  BY <1>6, <1>7

\* The checker is done and sends what it found.
LEMMA CheckedKeeps ==
    ASSUME TuiInv, Checked
    PROVE  TuiInv'
<1> USE DEF TuiInv
<1>1. /\ Open /\ checking # Idle /\ checking' = Idle
      /\ UNCHANGED <<log, feed, app, asked, inbox>>
  BY DEF Checked
<1>2. PICK f \in SUBSET Files : f = checking[1] /\ f = Head(checking)
  <2>1. checking \in Seq(SUBSET Files) /\ checking # <<>>
    BY <1>1 DEF TuiTyped, Idle
  <2> QED
    BY <2>1
<1>3. PICK m : m = [what |-> "drift", n |-> 0, link |-> "none", files |-> f]
  OBVIOUS
<1>4. m \in Messages /\ m.what = "drift" /\ m.files = f
  BY <1>3 DEF Messages, LinkStates
<1>5. queue \in Seq(Messages) /\ queue' = Append(queue, m)
  BY <1>2, <1>3 DEF Checked, Send, TuiTyped
<1>6. /\ queue' \in Seq(Messages) /\ DOMAIN queue = 1..Len(queue) /\ Len(queue) \in Nat
      /\ DOMAIN queue' = 1..Len(queue) + 1
      /\ \A i \in DOMAIN queue : queue'[i] = queue[i]
      /\ queue'[Len(queue) + 1] = m
      /\ \A k : NoneOf(queue', k) <=> NoneOf(queue, k) /\ m.what # k
      /\ \A k, i : m.what = k => (NewestIs(queue', k, i) <=> i = Len(queue) + 1)
      /\ \A k, i : m.what # k => (NewestIs(queue', k, i) <=> NewestIs(queue, k, i))
  BY <1>4, <1>5, QueueAfterSend
<1>7. TuiTyped'
  <2>1. checking' \in Seq(SUBSET Files) /\ Len(checking') = 0
    BY <1>1 DEF Idle
  <2> HIDE DEF Messages
  <2> QED
    BY <1>1, <1>6, <2>1 DEF TuiTyped, Open
<1>8. \A i \in DOMAIN queue' : queue'[i].what = "model" => i \in DOMAIN queue
  BY <1>4, <1>6
<1>9. ModelsAscend'
  BY <1>1, <1>6, <1>8 DEF ModelsAscend
<1>10. LastModelIsCurrent'
  <2>1. NoneOf(queue, "model")' => NoneOf(queue, "model")
    BY <1>6
  <2>2. \A i \in DOMAIN queue' : NewestIs(queue, "model", i)' => NewestIs(queue, "model", i)
    BY <1>4, <1>6
  <2> QED
    BY <1>1, <1>6, <1>8, <2>1, <2>2 DEF LastModelIsCurrent, IsCurrent, Open, NewestIs
<1>11. \A files : LastCheckIs(files) => LastCheckIs(files)'
  <2> SUFFICES ASSUME NEW files, LastCheckIs(files) PROVE LastCheckIs(files)'
    OBVIOUS
  <2>1. CASE inbox # <<>>
    BY <1>1, <2>1 DEF LastCheckIs
  <2>2. CASE inbox = <<>>
    <3>1. files = f
      BY <1>1, <1>2, <2>2 DEF LastCheckIs
    <3>2. ~NoneOf(queue, "drift")'
      BY <1>4, <1>6
    <3>3. \A i \in DOMAIN queue' : NewestIs(queue', "drift", i) => queue'[i].files = f
      BY <1>4, <1>6
    <3> QED
      BY <1>1, <2>2, <3>1, <3>2, <3>3 DEF LastCheckIs
  <2> QED
    BY <2>1, <2>2
<1>12. LastCheckIsOfTheView'
  <2>1. PICK x : x = Cited(app.shown) /\ Cited(app.shown)' = x
    BY <1>1 DEF Cited
  <2>2. app.fed \in BOOLEAN /\ app'.fed = app.fed
    BY <1>1 DEF TuiTyped
  <2> QED
    BY <1>1, <1>11, <2>1, <2>2, SameCheckNeeded
<1> QED
  BY <1>7, <1>9, <1>10, <1>12


\* The view's channel after its first message is taken.
LEMMA QueueAfterTake ==
    ASSUME queue \in Seq(Messages), queue # <<>>, queue' = Tail(queue)
    PROVE  /\ queue' \in Seq(Messages) /\ DOMAIN queue = 1..Len(queue) /\ 1 \in DOMAIN queue
           /\ queue[1] \in Messages /\ Head(queue) = queue[1]
           /\ \A i \in DOMAIN queue' : /\ i \in Nat /\ i # 0 /\ i + 1 \in DOMAIN queue
                                       /\ queue'[i] = queue[i + 1]
           /\ \A k : NoneOf(queue', k) /\ queue[1].what = k => NewestIs(queue, k, 1)
           /\ \A k : NoneOf(queue', k) /\ queue[1].what # k => NoneOf(queue, k)
           /\ \A k, i : NewestIs(queue', k, i) => NewestIs(queue, k, i + 1)
<1>1. PICK q \in Seq(Messages) : q = queue
  OBVIOUS
<1>2. PICK r : r = queue'
  OBVIOUS
<1>3. q # <<>> /\ r = Tail(q)
  BY <1>1, <1>2
<1>4. /\ r \in Seq(Messages) /\ DOMAIN q = 1..Len(q) /\ Len(q) \in Nat /\ 1 \in DOMAIN q
      /\ q[1] \in Messages /\ Head(q) = q[1]
      /\ DOMAIN r = 1..Len(q) - 1
      /\ \A i \in DOMAIN r : i \in Nat /\ i + 1 \in DOMAIN q /\ r[i] = q[i + 1]
  BY <1>3, Received
<1>5. \A i \in DOMAIN r : i # 0
  BY <1>4
<1>6. ASSUME NEW k, NEW i
      PROVE  /\ NoneOf(r, k) /\ q[1].what = k => NewestIs(q, k, 1)
             /\ NoneOf(r, k) /\ q[1].what # k => NoneOf(q, k)
             /\ NewestIs(r, k, i) => NewestIs(q, k, i + 1)
  BY <1>3, NewestReceived
<1>7. \A k : /\ NoneOf(queue', k) /\ queue[1].what = k => NewestIs(queue, k, 1)
             /\ NoneOf(queue', k) /\ queue[1].what # k => NoneOf(queue, k)
  BY <1>1, <1>2, <1>6
<1>8. \A k, i : NewestIs(queue', k, i) => NewestIs(queue, k, i + 1)
  BY <1>1, <1>2, <1>6
<1> QED
  BY <1>1, <1>2, <1>4, <1>5, <1>7, <1>8

LEMMA TakeDriftKeeps ==
    ASSUME TuiInv, TakeDrift
    PROVE  TuiInv'
<1> USE DEF TuiInv
<1>1. /\ Open /\ queue # <<>> /\ queue' = Tail(queue) /\ queue \in Seq(Messages)
      /\ UNCHANGED <<log, feed, asked, inbox, checking>>
  BY DEF TakeDrift, TuiTyped
<1>2. /\ queue' \in Seq(Messages) /\ 1 \in DOMAIN queue
      /\ queue[1] \in Messages /\ Head(queue) = queue[1]
      /\ \A i \in DOMAIN queue' : /\ i \in Nat /\ i # 0 /\ i + 1 \in DOMAIN queue
                                  /\ queue'[i] = queue[i + 1]
      /\ \A k : NoneOf(queue', k) /\ queue[1].what = k => NewestIs(queue, k, 1)
      /\ \A k : NoneOf(queue', k) /\ queue[1].what # k => NoneOf(queue, k)
      /\ \A k, i : NewestIs(queue', k, i) => NewestIs(queue, k, i + 1)
  BY <1>1, QueueAfterTake
<1>3. queue[1].what = "drift" /\ app' = [app EXCEPT !.drift = queue[1].files]
  BY <1>2 DEF TakeDrift
<1>4. /\ DOMAIN app' = DOMAIN app /\ app'.shown = app.shown /\ app'.link = app.link
      /\ app'.fed = app.fed /\ app'.tab = app.tab /\ app'.drift = queue[1].files
  BY <1>3 DEF TuiTyped, AppFields
<1>5. TuiTyped'
  BY <1>1, <1>2, <1>4 DEF TuiTyped, Open
<1>6. ModelsAscend'
  <2>1. \A i, j \in DOMAIN queue' : i < j => i + 1 < j + 1
    BY <1>2
  <2> QED
    BY <1>1, <1>2, <1>4, <2>1 DEF ModelsAscend
<1>7. LastModelIsCurrent'
  <2>1. NoneOf(queue', "model") => NoneOf(queue, "model")
    BY <1>2, <1>3
  <2> QED
    BY <1>1, <1>2, <1>4, <2>1 DEF LastModelIsCurrent, IsCurrent, Open
<1>8. \A files : LastCheckIs(files) => LastCheckIs(files)'
  <2> SUFFICES ASSUME NEW files, LastCheckIs(files) PROVE LastCheckIs(files)'
    OBVIOUS
  <2>1. CASE inbox # <<>> \/ checking # Idle
    BY <1>1, <2>1 DEF LastCheckIs
  <2>2. CASE inbox = <<>> /\ checking = Idle
    <3>1. \A i \in DOMAIN queue : NewestIs(queue, "drift", i) => queue[i].files = files
      BY <2>2 DEF LastCheckIs
    <3>2. NoneOf(queue', "drift") => app'.drift = files
      BY <1>2, <1>3, <1>4, <3>1
    <3>3. \A i \in DOMAIN queue' : NewestIs(queue', "drift", i) => queue'[i].files = files
      BY <1>2, <3>1
    <3> QED
      BY <1>1, <2>2, <3>2, <3>3 DEF LastCheckIs
  <2> QED
    BY <2>1, <2>2
<1>9. LastCheckIsOfTheView'
  <2>1. PICK x : x = Cited(app.shown) /\ Cited(app.shown)' = x
    BY <1>1, <1>4 DEF Cited
  <2>2. app.fed \in BOOLEAN /\ app'.fed = app.fed
    BY <1>4 DEF TuiTyped
  <2> QED
    BY <1>1, <1>8, <2>1, <2>2, SameCheckNeeded
<1> QED
  BY <1>5, <1>6, <1>7, <1>9

LEMMA TakeModelKeeps ==
    ASSUME TuiInv, TakeModel
    PROVE  TuiInv'
<1> USE DEF TuiInv
<1>1. /\ Open /\ queue # <<>> /\ queue' = Tail(queue) /\ queue \in Seq(Messages)
      /\ UNCHANGED <<log, feed, checking>> /\ log \in Seq(LogRecords) /\ Len(log) \in Nat
  BY DEF TakeModel, TuiTyped
<1>2. /\ queue' \in Seq(Messages) /\ 1 \in DOMAIN queue
      /\ queue[1] \in Messages /\ Head(queue) = queue[1]
      /\ \A i \in DOMAIN queue' : /\ i \in Nat /\ i # 0 /\ i + 1 \in DOMAIN queue
                                  /\ queue'[i] = queue[i + 1]
      /\ \A k : NoneOf(queue', k) /\ queue[1].what = k => NewestIs(queue, k, 1)
      /\ \A k : NoneOf(queue', k) /\ queue[1].what # k => NoneOf(queue, k)
      /\ \A k, i : NewestIs(queue', k, i) => NewestIs(queue, k, i + 1)
  BY <1>1, QueueAfterTake
<1>3. PICK n \in Nat : n = queue[1].n
  BY <1>2 DEF Messages
<1>4. queue[1].what = "model" /\ app.shown <= n /\ n <= Len(log) /\ n \in 0..Len(log)
      /\ app.shown \in 0..Len(log)
  BY <1>1, <1>2, <1>3 DEF TakeModel, ModelsAscend, TuiTyped
<1>5. PICK c \in SUBSET Files : c = Cited(n) /\ Cited(app.shown) \subseteq c
  BY <1>1, <1>4, CitedFiles
<1>6. /\ inbox' = (IF c = asked THEN inbox ELSE Append(inbox, c)) /\ asked' = c
      /\ \E z, y : app' = [app EXCEPT !.shown = n, !.link = queue[1].link, !.fed = TRUE,
                                     !.cursor = z, !.sel = y]
  <2>1. inbox' = (IF c = asked THEN inbox ELSE Append(inbox, c)) /\ asked' = c
    BY <1>2, <1>3, <1>5 DEF TakeModel
  <2>2. PICK z : app' = Settle([app EXCEPT !.shown = n, !.link = queue[1].link, !.fed = TRUE,
                                           !.cursor = z])
    BY <1>2, <1>3 DEF TakeModel
  <2>3. PICK y : app' = [[app EXCEPT !.shown = n, !.link = queue[1].link, !.fed = TRUE,
                                     !.cursor = z] EXCEPT !.sel = y]
    BY <2>2 DEF Settle
  <2> QED
    BY <2>1, <2>3
<1>7. /\ DOMAIN app' = DOMAIN app /\ app'.shown = n /\ app'.link = queue[1].link
      /\ app'.fed = TRUE /\ app'.tab = app.tab /\ app'.drift = app.drift
  BY <1>6 DEF TuiTyped, AppFields
<1>8. TuiTyped'
  <2>1. inbox \in Seq(SUBSET Files)
    BY DEF TuiTyped
  <2>2. inbox' \in Seq(SUBSET Files)
    BY <1>6, <2>1
  <2>3. app'.fed \in BOOLEAN /\ Open'
    BY <1>1, <1>7 DEF Open
  <2> HIDE DEF LogRecords, Messages
  <2> QED
    BY <1>1, <1>2, <1>4, <1>7, <2>2, <2>3 DEF TuiTyped
<1>9. ModelsAscend'
  <2>1. \A i, j \in DOMAIN queue' : i < j => i + 1 < j + 1
    BY <1>2
  <2>2. \A i \in DOMAIN queue' : 1 < i + 1
    BY <1>2
  <2>3. \A i \in DOMAIN queue' : queue'[i].what = "model" => n <= queue'[i].n /\ queue'[i].n <= Len(log)
    BY <1>2, <1>3, <1>4, <2>2 DEF ModelsAscend
  <2> QED
    BY <1>1, <1>2, <1>7, <2>1, <2>3 DEF ModelsAscend
<1>10. LastModelIsCurrent'
  <2>1. NoneOf(queue', "model") => IsCurrent(app'.shown, app'.link)
    BY <1>1, <1>2, <1>3, <1>4, <1>7 DEF LastModelIsCurrent
  <2>2. \A i \in DOMAIN queue' :
           NewestIs(queue', "model", i) => IsCurrent(queue'[i].n, queue'[i].link)
    BY <1>1, <1>2 DEF LastModelIsCurrent
  <2> QED
    BY <1>1, <2>1, <2>2 DEF LastModelIsCurrent, IsCurrent
<1>11. LastCheckIs(c)'
  <2>1. CASE c # asked
    <3>1. inbox \in Seq(SUBSET Files)
      BY DEF TuiTyped
    <3>2. inbox' # <<>> /\ inbox'[Len(inbox')] = c
      BY <1>6, <2>1, <3>1
    <3> QED
      BY <3>2 DEF LastCheckIs
  <2>2. CASE c = asked
    <3>1. LastCheckIs(c)
      <4>1. CASE app.fed
        BY <1>1, <2>2, <4>1 DEF LastCheckIsOfTheView
      <4>2. CASE ~app.fed
        <5>1. c = {} /\ Cited(app.shown) = {} /\ (LastCheckIs({}) \/ LastCheckIs(Cited(app.shown)))
          BY <1>1, <1>5, <2>2, <4>2 DEF LastCheckIsOfTheView
        <5> QED
          BY <5>1
      <4> QED
        BY <4>1, <4>2
    <3>2. inbox' = inbox /\ checking' = checking
      BY <1>1, <1>6, <2>2
    <3>3. NoneOf(queue', "drift") => NoneOf(queue, "drift")
      BY <1>2, <1>4
    <3>4. \A i \in DOMAIN queue' : NewestIs(queue', "drift", i) =>
             i + 1 \in DOMAIN queue /\ NewestIs(queue, "drift", i + 1) /\ queue'[i] = queue[i + 1]
      BY <1>2
    <3> QED
      BY <1>7, <3>1, <3>2, <3>3, <3>4 DEF LastCheckIs
  <2> QED
    BY <2>1, <2>2
<1>12. LastCheckIsOfTheView'
  <2>1. Cited(app.shown)' = c
    BY <1>1, <1>5, <1>7 DEF Cited
  <2>2. LastCheckIs(asked)'
    BY <1>6, <1>11 DEF LastCheckIs
  <2> QED
    BY <1>6, <1>7, <2>1, <2>2 DEF LastCheckIsOfTheView
<1> QED
  BY <1>8, <1>9, <1>10, <1>12

-----------------------------------------------------------------------------
(* The terminal view: the theorem. *)

LEMMA TuiStutters == TuiInv /\ UNCHANGED tuiVars => TuiInv'
<1> SUFFICES ASSUME TuiInv, UNCHANGED tuiVars PROVE TuiInv'
  OBVIOUS
<1> USE DEF TuiInv, tuiVars
<1>1. TuiTyped' /\ ModelsAscend'
  BY DEF TuiTyped, ModelsAscend, Open
<1>2. LastModelIsCurrent'
  BY DEF LastModelIsCurrent, IsCurrent, NoneOf, NewestIs, Open
<1>3. LastCheckIsOfTheView'
  BY DEF LastCheckIsOfTheView, LastCheckIs, NoneOf, NewestIs, Cited, Open
<1> QED
  BY <1>1, <1>2, <1>3

LEMMA TuiStep == TuiInv /\ [TuiNext]_tuiVars => TuiInv'
<1> SUFFICES ASSUME TuiInv, TuiNext PROVE TuiInv'
  BY TuiStutters
<1> QED
  BY FeedKeeps, AskedKeeps, CheckedKeeps, TakeModelKeeps, TakeDriftKeeps, PressKeeps, QuitKeeps
     DEF TuiNext

\* Once the channels are empty the view is up to date with its threads: it shows all that
\* was verified and how the feed is, and the files that it shows as checked are those it
\* cites (Feed::run, Checker::run and App::set_model), for any log, keys and channels.
THEOREM QuietViewIsCurrent == TuiSpec => []QuietIsCurrent
<1>1. TuiInv => QuietIsCurrent
  <2> SUFFICES ASSUME TuiInv, queue = <<>>, inbox = <<>>, checking = Idle, app.fed
               PROVE  /\ app.drift = Cited(app.shown)
                      /\ app.shown = Len(log)
                      /\ app.link = "live" <=> feed.runs /\ feed.live
    BY DEF QuietIsCurrent
  <2>1. Open /\ NoneOf(queue, "model") /\ NoneOf(queue, "drift")
    BY DEF TuiInv, TuiTyped, NoneOf
  <2>2. IsCurrent(app.shown, app.link)
    BY <2>1 DEF TuiInv, LastModelIsCurrent
  <2>3. asked = Cited(app.shown) /\ LastCheckIs(asked)
    BY <2>1 DEF TuiInv, LastCheckIsOfTheView
  <2> QED
    BY <2>1, <2>2, <2>3 DEF IsCurrent, LastCheckIs
<1> QED
  BY InitTui, TuiStep, <1>1, PTL DEF TuiSpec

=============================================================================
