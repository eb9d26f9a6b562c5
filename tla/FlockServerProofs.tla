-------------------------- MODULE FlockServerProofs --------------------------
(***************************************************************************)
(* Theorems about the flock server for every value of its constants.       *)
(*                                                                         *)
(* First what vetting an event guarantees about the state it is taken      *)
(* into, for any state and any event: the server (live), recovery (replay) *)
(* and every follower apply events through the same two operators, so      *)
(* these lemmas serve all three.                                           *)
(*                                                                         *)
(* Then the server.  Every step either leaves the log alone or appends     *)
(* events that were vetted one after the other (StepVets).  The inductive  *)
(* invariant is therefore a relation `Sound(s, l)` between a state and the *)
(* log it was derived from, shown to survive one vetted event              *)
(* (VettedKeepsSound).                                                     *)
(*                                                                         *)
(* Then the whole log: its history is lawful, and replaying it rebuilds the*)
(* live state.  The first says of each event how it stands to all those    *)
(* before it.  The server decides by its state, so the inductive invariant *)
(* says that the state remembers the log (`Told`): each session's head,    *)
(* activation and start, the roster and its delegate are the last ones in  *)
(* it.  `Fresh` is what the epoch bump restores after authority was taken  *)
(* away.  For the second the inductive invariant is that there is a        *)
(* sequence of states from genesis to the live one that the log leads      *)
(* through (Trace).  That the recursive function of replay goes through the*)
(* same states is shown by the least index at which it would not.          *)
(***************************************************************************)
EXTENDS FlockServer, WellFoundedInduction, TLAPS

-----------------------------------------------------------------------------
(* Types. *)

\* A state whose parts are well typed is well typed (Apply builds it part by
\* part).
LEMMA EpochForType ==
    ASSUME NEW s \in State, NEW ev \in Event
    PROVE  EpochFor(s, ev.kind) \in Nat
BY DEF EpochFor, State

\* The invite table stays well typed.
LEMMA InvitesAfterType ==
    ASSUME NEW s \in State, NEW ev \in Event
    PROVE  InvitesAfter(s, ev) \in [Tokens -> Invite]
<1>1. s.admitted + 1 \in Nat /\ s.invites \in [Tokens -> Invite]
  BY DEF State
<1>2. CASE ev.kind = "invite"
  <2>1. ev.body \in [member: Members, token: Tokens]
    BY <1>2 DEF Event, ServerEvents
  <2>2. QED
    BY <1>1, <1>2, <2>1 DEF InvitesAfter, Invite
<1>3. CASE ev.kind = "session-start"
  <2>1. ev.body.token \in Tokens
    BY <1>3 DEF Event, ServerEvents
  <2>2. QED
    BY <1>1, <1>3, <2>1 DEF InvitesAfter, Invite
<1>4. CASE ev.kind \notin {"invite", "session-start"}
  BY <1>1, <1>4 DEF InvitesAfter
<1>5. QED
  BY <1>2, <1>3, <1>4

\* The session table stays well typed.
LEMMA SessionsAfterType ==
    ASSUME NEW s \in State, NEW ev \in Event
    PROVE  SessionsAfter(s, ev) \in [Keys -> Session]
<1>1. /\ s.admitted + 1 \in Nat
      /\ s.epoch \in Nat
      /\ s.sessions \in [Keys -> Session]
  BY DEF State
<1>2. CASE ev.kind = "session-start"
  <2>1. ev.body \in [member: Members, token: Tokens, session: Keys, cert: Nat]
    BY <1>2 DEF Event, ServerEvents
  <2>2. Started(s, ev) \in Session
    BY <1>1, <2>1 DEF Started, Session, Statuses
  <2>3. SessionsAfter(s, ev) = [s.sessions EXCEPT ![ev.body.session] = Started(s, ev)]
    BY <1>2 DEF SessionsAfter
  <2>4. QED
    BY <1>1, <2>2, <2>3
<1>3. CASE ev.kind = "session-end"
  <2>1. SessionsAfter(s, ev) = [s.sessions EXCEPT ![ev.body.session].status = "ended"]
    BY <1>3 DEF SessionsAfter
  <2>2. QED
    BY <1>1, <2>1 DEF Session, Statuses
<1>4. CASE ev.kind = "handoff"
  <2>1. ev.body.approval.from \in Keys /\ ev.body.approval.to \in Keys
    BY <1>4 DEF Event, ServerEvents, Approval
  <2>2. SessionsAfter(s, ev) = [s.sessions EXCEPT
               ![ev.body.approval.from].status = "ended",
               ![ev.body.approval.to].status = "active",
               ![ev.body.approval.to].activatedBy = s.admitted + 1]
    BY <1>4 DEF SessionsAfter
  <2> DEFINE A == [s.sessions EXCEPT ![ev.body.approval.from].status = "ended"]
             B == [A EXCEPT ![ev.body.approval.to].status = "active"]
             C == [B EXCEPT ![ev.body.approval.to].activatedBy = s.admitted + 1]
  <2>3. A \in [Keys -> Session]
    BY <1>1 DEF Session, Statuses
  <2>4. B \in [Keys -> Session]
    <3> HIDE DEF A
    <3> QED BY <2>3 DEF Session, Statuses
  <2>5. C \in [Keys -> Session]
    <3> HIDE DEF B
    <3> QED BY <1>1, <2>4 DEF Session
  <2>6. SessionsAfter(s, ev) = C
    BY <2>2
  <2>7. QED
    BY <2>5, <2>6
<1>5. CASE ev.kind = "renewal"
  <2>1. ev.body \in [session: Keys, epoch: Nat, cert: Nat]
    BY <1>5 DEF Event, ServerEvents
  <2> DEFINE A == [s.sessions EXCEPT ![ev.body.session].certs = @ \cup {ev.body.cert}]
             B == [A EXCEPT ![ev.body.session].epoch = ev.body.epoch]
  <2>2. SessionsAfter(s, ev) = B
    BY <1>5 DEF SessionsAfter
  <2>3. A \in [Keys -> Session]
    BY <1>1, <2>1 DEF Session
  <2>4. B \in [Keys -> Session]
    <3> HIDE DEF A
    <3> QED BY <2>1, <2>3 DEF Session
  <2>5. QED
    BY <2>2, <2>4
<1>6. CASE ev.kind \notin {"session-start", "session-end", "handoff", "renewal"}
  BY <1>1, <1>6 DEF SessionsAfter
<1>7. QED
  BY <1>2, <1>3, <1>4, <1>5, <1>6

\* The table of holders stays well typed.
LEMMA HoldersAfterType ==
    ASSUME NEW s \in State, NEW ev \in Event
    PROVE  HoldersAfter(s, ev) \in [Members -> Keys \cup {None}]
<1>1. s.holders \in [Members -> Keys \cup {None}]
  BY DEF State
<1>2. CASE ev.kind = "session-start"
  <2>1. ev.body.session \in Keys
    BY <1>2 DEF Event, ServerEvents
  <2>2. QED
    BY <1>1, <1>2, <2>1 DEF HoldersAfter
<1>3. CASE ev.kind = "handoff"
  <2>1. ev.body.approval.to \in Keys
    BY <1>3 DEF Event, ServerEvents, Approval
  <2>2. QED
    BY <1>1, <1>3, <2>1 DEF HoldersAfter
<1>4. CASE ev.kind \notin {"session-start", "handoff"}
  BY <1>1, <1>4 DEF HoldersAfter
<1>5. QED
  BY <1>2, <1>3, <1>4

\* Taking any event into a state gives a state.
LEMMA ApplyType ==
    ASSUME NEW s \in State, NEW ev \in Event
    PROVE  Apply(s, ev) \in State
<1>1. EpochFor(s, ev.kind) \in Nat
  BY EpochForType
<1>2. /\ InvitesAfter(s, ev) \in [Tokens -> Invite]
      /\ SessionsAfter(s, ev) \in [Keys -> Session]
      /\ HoldersAfter(s, ev) \in [Members -> Keys \cup {None}]
  BY InvitesAfterType, SessionsAfterType, HoldersAfterType
<1>3. /\ ev.kind = "roster" => ev.body.roster \in Roster
      /\ ev.kind = "session-start" => ev.body.member \in Members
      /\ ev.kind = "handoff" => ev.body.approval \in Approval
      /\ ev.kind = "device-cert" => ev.body.device \in Devices
  BY DEF Event, ServerEvents
<1>4. QED
  BY <1>1, <1>2, <1>3 DEF Apply, State

-----------------------------------------------------------------------------
(* The parts of the session table only matter through four fields; an event *)
(* that leaves them alone preserves the table.                              *)

\* The table depends on nothing but each session's status, member and
\* activation, the holders, the seen members and the writer heads.
LEMMA SameTable ==
    ASSUME NEW s \in State, NEW t \in State, SessionTableOK(s),
           \A k \in Keys :
              /\ t.sessions[k].status = s.sessions[k].status
              /\ t.sessions[k].member = s.sessions[k].member
              /\ t.sessions[k].activatedBy = s.sessions[k].activatedBy,
           t.holders = s.holders, t.seen = s.seen, t.heads = s.heads
    PROVE  SessionTableOK(t)
<1>1. s.holders \in [Members -> Keys \cup {None}]
  BY DEF State
<1>2. ActiveHolds(t)
  BY DEF ActiveHolds, SessionTableOK
<1>3. PendingWaits(t)
  BY DEF PendingWaits, SessionTableOK
<1>4. EnrolledSeen(t)
  <2>1. ASSUME NEW k \in Keys
        PROVE  /\ t.sessions[k].status # "absent" => t.sessions[k].member \in t.seen
               /\ t.sessions[k].status = "absent" => t.heads[k] = 0
    <3>1. /\ s.sessions[k].status # "absent" => s.sessions[k].member \in s.seen
          /\ s.sessions[k].status = "absent" => s.heads[k] = 0
      BY DEF EnrolledSeen, SessionTableOK
    <3>2. QED
      BY <3>1
  <2>2. QED
    BY <2>1 DEF EnrolledSeen
<1>5. HoldersEnrolled(t)
  BY <1>1 DEF HoldersEnrolled, SessionTableOK
<1>6. QED
  BY <1>2, <1>3, <1>4, <1>5 DEF SessionTableOK

\* A server event leaves every writer head alone.
LEMMA ServerLeavesHeads ==
    ASSUME NEW s \in State, NEW ev \in Event, ev.author = Server
    PROVE  Apply(s, ev).heads = s.heads
BY PrincipalsAssumption DEF Apply

\* Server-only kinds are authored by the server.
LEMMA ServerKindAuthor ==
    ASSUME NEW ev \in Event, ev.kind \in ServerKinds
    PROVE  ev.author = Server
BY DEF Event, ServerEvents, ServerKinds

\* Enrolling a session keeps the table: the first session of a member takes
\* the role, any later one waits behind it.
LEMMA StartKeepsTable ==
    ASSUME NEW s \in State, NEW ev \in Event, SessionTableOK(s), Vet(s, ev),
           ev.kind = "session-start"
    PROVE  SessionTableOK(Apply(s, ev))
<1> DEFINE t == Apply(s, ev)
           new == ev.body.session
           m == ev.body.member
<1>1. new \in Keys /\ m \in Members
  BY DEF Event, ServerEvents
<1>2. s.sessions[new].status = "absent"
  BY DEF Vet, Check, SessionStartOk
<1>3. /\ s.sessions \in [Keys -> Session]
      /\ s.holders \in [Members -> Keys \cup {None}]
      /\ s.seen \subseteq Members
  BY DEF State
<1>4. t.heads = s.heads
  BY ServerLeavesHeads, ServerKindAuthor DEF ServerKinds
<1>5. t.seen = s.seen \cup {m}
  BY DEF Apply
<1>6. \A k \in Keys : t.sessions[k] = IF k = new THEN Started(s, ev) ELSE s.sessions[k]
  BY <1>1, <1>3 DEF Apply, SessionsAfter
<1>7. /\ t.sessions[new].status = IF m \in s.seen THEN "pending" ELSE "active"
      /\ t.sessions[new].member = m
      /\ t.sessions[new].activatedBy = 0
  BY <1>1, <1>6 DEF Started
<1>8. \A k \in Keys : k # new => t.sessions[k] = s.sessions[k]
  BY <1>6
<1>9. t.holders = HoldersAfter(s, ev)
  BY DEF Apply
<1>10. m \in s.seen => t.holders = s.holders
  BY <1>9 DEF HoldersAfter
<1>11. m \notin s.seen => t.holders = [s.holders EXCEPT ![m] = new]
  BY <1>9 DEF HoldersAfter
<1>12. \A k \in Keys : s.sessions[k].member = m => m \in s.seen \/ s.sessions[k].status = "absent"
  BY DEF SessionTableOK, EnrolledSeen
<1>13. ASSUME NEW x \in Members
       PROVE  s.holders[x] # new
  <2>1. new # None
    BY <1>1, PrincipalsAssumption
  <2>2. s.holders[x] # None => s.sessions[s.holders[x]].status \in {"active", "ended"}
    BY DEF SessionTableOK, HoldersEnrolled
  <2> HIDE DEF new
  <2>3. QED
    BY <1>2, <2>1, <2>2
<1>14. s.heads[new] = 0
  BY <1>1, <1>2 DEF SessionTableOK, EnrolledSeen
<1> HIDE DEF t, new, m
<1>15. CASE m \in s.seen
  <2>1. t.holders = s.holders /\ t.seen = s.seen
    BY <1>5, <1>10, <1>15
  <2>2. s.holders[m] \notin {new, None}
    BY <1>1, <1>13, <1>15 DEF SessionTableOK, HoldersEnrolled
  <2>3. ActiveHolds(t)
    BY <1>7, <1>8, <1>15, <2>1 DEF SessionTableOK, ActiveHolds
  <2>4. PendingWaits(t)
    BY <1>4, <1>7, <1>8, <1>14, <2>1, <2>2 DEF SessionTableOK, PendingWaits
  <2>5. EnrolledSeen(t)
    <3>1. ASSUME NEW k \in Keys
          PROVE  /\ t.sessions[k].status # "absent" => t.sessions[k].member \in t.seen
                 /\ t.sessions[k].status = "absent" => t.heads[k] = 0
      <4>1. CASE k = new
        BY <4>1, <1>7, <1>15, <2>1
      <4>2. CASE k # new
        BY <4>2, <1>4, <1>8, <2>1 DEF SessionTableOK, EnrolledSeen
      <4>3. QED
        BY <4>1, <4>2
    <3>2. QED
      BY <3>1 DEF EnrolledSeen
  <2>6. HoldersEnrolled(t)
    BY <1>3, <1>8, <1>13, <2>1 DEF SessionTableOK, HoldersEnrolled
  <2>7. QED
    BY <2>3, <2>4, <2>5, <2>6 DEF SessionTableOK, t
<1>16. CASE m \notin s.seen
  <2>1. /\ t.holders[m] = new
        /\ \A x \in Members : x # m => t.holders[x] = s.holders[x]
    BY <1>1, <1>3, <1>11, <1>16
  <2>2. \A k \in Keys : k # new /\ s.sessions[k].status # "absent"
                           => s.sessions[k].member # m /\ s.sessions[k].member \in Members
    BY <1>3, <1>12, <1>16 DEF SessionTableOK, EnrolledSeen
  <2>3. ActiveHolds(t)
    <3>1. ASSUME NEW k \in Keys, t.sessions[k].status = "active"
          PROVE  t.holders[t.sessions[k].member] = k
      <4>1. CASE k = new
        BY <4>1, <1>7, <2>1
      <4>2. CASE k # new
        BY <3>1, <4>2, <1>8, <2>1, <2>2 DEF SessionTableOK, ActiveHolds
      <4>3. QED
        BY <4>1, <4>2
    <3>2. QED
      BY <3>1 DEF ActiveHolds
  <2>4. PendingWaits(t)
    <3>1. ASSUME NEW k \in Keys, t.sessions[k].status = "pending"
          PROVE  /\ t.holders[t.sessions[k].member] \notin {k, None}
                 /\ t.heads[k] = 0
                 /\ t.sessions[k].activatedBy = 0
      <4>1. k # new
        BY <3>1, <1>7, <1>16
      <4>2. QED
        BY <3>1, <4>1, <1>4, <1>8, <2>1, <2>2 DEF SessionTableOK, PendingWaits
    <3>2. QED
      BY <3>1 DEF PendingWaits
  <2>5. EnrolledSeen(t)
    BY <1>4, <1>5, <1>7, <1>8, <1>16 DEF SessionTableOK, EnrolledSeen
  <2>6. HoldersEnrolled(t)
    <3>1. ASSUME NEW x \in Members
          PROVE  /\ x \in t.seen <=> t.holders[x] # None
                 /\ t.holders[x] # None =>
                       /\ t.sessions[t.holders[x]].status \in {"active", "ended"}
                       /\ t.sessions[t.holders[x]].member = x
      <4>1. CASE x = m
        BY <4>1, <1>1, <1>5, <1>7, <1>16, <2>1, PrincipalsAssumption
      <4>2. CASE x # m
        BY <4>2, <1>3, <1>5, <1>8, <1>13, <2>1 DEF SessionTableOK, HoldersEnrolled
      <4>3. QED
        BY <4>1, <4>2
    <3>2. QED
      BY <3>1 DEF HoldersEnrolled
  <2>7. QED
    BY <2>3, <2>4, <2>5, <2>6 DEF SessionTableOK, t
<1>17. QED
  BY <1>15, <1>16 DEF t

\* Ending a session keeps the table: an ended holder still holds.
LEMMA EndKeepsTable ==
    ASSUME NEW s \in State, NEW ev \in Event, SessionTableOK(s), Vet(s, ev),
           ev.kind = "session-end"
    PROVE  SessionTableOK(Apply(s, ev))
<1> DEFINE t == Apply(s, ev)
           old == ev.body.session
<1>1. old \in Keys
  BY DEF Event, ServerEvents
<1>2. /\ s.sessions \in [Keys -> Session]
      /\ s.holders \in [Members -> Keys \cup {None}]
  BY DEF State
<1>3. Live(s, old)
  BY DEF Vet, Check
<1>4. /\ t.heads = s.heads
      /\ t.seen = s.seen
      /\ t.holders = s.holders
  <2>1. t.heads = s.heads
    BY ServerLeavesHeads, ServerKindAuthor DEF ServerKinds
  <2>2. QED
    BY <2>1 DEF Apply, HoldersAfter
<1>5. \A k \in Keys :
         /\ t.sessions[k].status = IF k = old THEN "ended" ELSE s.sessions[k].status
         /\ t.sessions[k].member = s.sessions[k].member
         /\ t.sessions[k].activatedBy = s.sessions[k].activatedBy
  <2>1. t.sessions = [s.sessions EXCEPT ![old].status = "ended"]
    BY DEF Apply, SessionsAfter
  <2>2. QED
    BY <1>2, <2>1 DEF Session
<1> HIDE DEF t, old
<1>6. ActiveHolds(t)
  BY <1>4, <1>5 DEF SessionTableOK, ActiveHolds
<1>7. PendingWaits(t)
  BY <1>4, <1>5 DEF SessionTableOK, PendingWaits
<1>8. EnrolledSeen(t)
  BY <1>1, <1>3, <1>4, <1>5 DEF SessionTableOK, EnrolledSeen, Live
<1>9. HoldersEnrolled(t)
  BY <1>2, <1>4, <1>5 DEF SessionTableOK, HoldersEnrolled
<1>10. QED
  BY <1>6, <1>7, <1>8, <1>9 DEF SessionTableOK, t

\* A hand-off keeps the table: the holder ends, the pending session takes the
\* role, and no other session of the member was active.
LEMMA HandoffKeepsTable ==
    ASSUME NEW s \in State, NEW ev \in Event, SessionTableOK(s), Vet(s, ev),
           ev.kind = "handoff"
    PROVE  SessionTableOK(Apply(s, ev))
<1> DEFINE t == Apply(s, ev)
           from == ev.body.approval.from
           to == ev.body.approval.to
           m == ev.body.approval.member
<1>1. from \in Keys /\ to \in Keys /\ m \in Members
  BY DEF Event, ServerEvents, Approval
<1>2. /\ s.sessions \in [Keys -> Session]
      /\ s.holders \in [Members -> Keys \cup {None}]
      /\ s.admitted + 1 \in Nat
  BY DEF State
<1>3. /\ s.sessions[from].member = m
      /\ s.sessions[to].member = m
      /\ s.sessions[to].status = "pending"
      /\ s.holders[m] = from
  BY DEF Vet, Check, HandoffOk
<1>4. from # to
  BY <1>1, <1>3 DEF SessionTableOK, PendingWaits
<1>5. t.heads = s.heads /\ t.seen = s.seen
  <2>1. t.heads = s.heads
    BY ServerLeavesHeads, ServerKindAuthor DEF ServerKinds
  <2>2. QED
    BY <2>1 DEF Apply
<1>6. /\ t.holders[m] = to
      /\ \A x \in Members : x # m => t.holders[x] = s.holders[x]
  <2>1. t.holders = [s.holders EXCEPT ![s.sessions[to].member] = to]
    BY DEF Apply, HoldersAfter
  <2>2. QED
    BY <1>1, <1>2, <1>3, <2>1
<1>7. \A k \in Keys :
         /\ t.sessions[k].status = CASE k = from -> "ended"
                                     [] k = to -> "active"
                                     [] OTHER -> s.sessions[k].status
         /\ t.sessions[k].member = s.sessions[k].member
         /\ k # to => t.sessions[k].activatedBy = s.sessions[k].activatedBy
  <2> DEFINE A == [s.sessions EXCEPT ![from].status = "ended"]
             B == [A EXCEPT ![to].status = "active"]
             C == [B EXCEPT ![to].activatedBy = s.admitted + 1]
  <2>1. t.sessions = C
    BY DEF Apply, SessionsAfter
  <2>2. /\ A \in [Keys -> Session]
        /\ \A k \in Keys :
              /\ A[k].status = IF k = from THEN "ended" ELSE s.sessions[k].status
              /\ A[k].member = s.sessions[k].member
              /\ A[k].activatedBy = s.sessions[k].activatedBy
    BY <1>1, <1>2 DEF Session, Statuses
  <2>3. /\ B \in [Keys -> Session]
        /\ \A k \in Keys :
              /\ B[k].status = IF k = to THEN "active" ELSE A[k].status
              /\ B[k].member = A[k].member
              /\ B[k].activatedBy = A[k].activatedBy
    <3> HIDE DEF A
    <3> QED BY <1>1, <2>2 DEF Session, Statuses
  <2>4. \A k \in Keys :
              /\ C[k].status = B[k].status
              /\ C[k].member = B[k].member
              /\ k # to => C[k].activatedBy = B[k].activatedBy
    <3>1. B \in [Keys -> Session]
      BY <2>3
    <3> HIDE DEF B, to
    <3>2. TAKE k \in Keys
    <3>3. CASE k # to
      BY <3>1, <3>3
    <3>4. CASE k = to
      <4>1. C[k] = [B[k] EXCEPT !.activatedBy = s.admitted + 1]
        BY <3>1, <3>4
      <4>2. B[k] \in Session
        BY <3>1
      <4>3. QED
        BY <4>1, <4>2, <3>4 DEF Session
    <3>5. QED
      BY <3>3, <3>4
  <2> HIDE DEF A, B, C, from, to, t
  <2>5. QED
    BY <1>1, <1>4, <2>1, <2>2, <2>3, <2>4
<1>8. /\ t.sessions[from].status = "ended"
      /\ t.sessions[to].status = "active"
      /\ \A k \in Keys : k \notin {from, to} => t.sessions[k].status = s.sessions[k].status
  BY <1>1, <1>4, <1>7
<1>9. \A k \in Keys : s.sessions[k].status # "absent" => s.sessions[k].member \in Members
  BY DEF SessionTableOK, EnrolledSeen, State
<1> HIDE DEF t, from, to, m
<1>10. ActiveHolds(t)
  <2>1. ASSUME NEW k \in Keys, t.sessions[k].status = "active"
        PROVE  t.holders[t.sessions[k].member] = k
    <3>1. CASE k = to
      BY <3>1, <1>1, <1>3, <1>6, <1>7
    <3>2. CASE k # to
      <4>1. k # from /\ s.sessions[k].status = "active"
        BY <2>1, <3>2, <1>8
      <4>2. s.holders[s.sessions[k].member] = k
        BY <4>1 DEF SessionTableOK, ActiveHolds
      <4>3. s.sessions[k].member # m
        BY <4>1, <4>2, <1>3
      <4>4. QED
        BY <4>1, <4>2, <4>3, <1>6, <1>7, <1>9
    <3>3. QED
      BY <3>1, <3>2
  <2>2. QED
    BY <2>1 DEF ActiveHolds
<1>11. PendingWaits(t)
  <2>1. ASSUME NEW k \in Keys, t.sessions[k].status = "pending"
        PROVE  /\ t.holders[t.sessions[k].member] \notin {k, None}
               /\ t.heads[k] = 0
               /\ t.sessions[k].activatedBy = 0
    <3>1. k \notin {from, to} /\ s.sessions[k].status = "pending"
      BY <2>1, <1>8
    <3>2. /\ s.holders[s.sessions[k].member] \notin {k, None}
          /\ s.heads[k] = 0
          /\ s.sessions[k].activatedBy = 0
      BY <3>1 DEF SessionTableOK, PendingWaits
    <3>3. t.holders[t.sessions[k].member] \notin {k, None}
      <4>1. CASE s.sessions[k].member = m
        BY <4>1, <3>1, <1>1, <1>6, <1>7, PrincipalsAssumption
      <4>2. CASE s.sessions[k].member # m
        BY <4>2, <3>1, <3>2, <1>6, <1>7, <1>9
      <4>3. QED
        BY <4>1, <4>2
    <3>4. QED
      BY <3>1, <3>2, <3>3, <1>5, <1>7
  <2>2. QED
    BY <2>1 DEF PendingWaits
<1>12. EnrolledSeen(t)
  <2>1. ASSUME NEW k \in Keys
        PROVE  /\ t.sessions[k].status # "absent" => t.sessions[k].member \in t.seen
               /\ t.sessions[k].status = "absent" => t.heads[k] = 0
    <3>1. CASE k \in {from, to}
      <4>1. m \in s.seen
        BY <1>1, <1>3 DEF SessionTableOK, EnrolledSeen
      <4>2. QED
        BY <3>1, <4>1, <1>3, <1>5, <1>7, <1>8
    <3>2. CASE k \notin {from, to}
      BY <3>2, <1>5, <1>7, <1>8 DEF SessionTableOK, EnrolledSeen
    <3>3. QED
      BY <3>1, <3>2
  <2>2. QED
    BY <2>1 DEF EnrolledSeen
<1>13. HoldersEnrolled(t)
  <2>1. ASSUME NEW x \in Members
        PROVE  /\ x \in t.seen <=> t.holders[x] # None
               /\ t.holders[x] # None =>
                     /\ t.sessions[t.holders[x]].status \in {"active", "ended"}
                     /\ t.sessions[t.holders[x]].member = x
    <3>1. CASE x = m
      <4>1. m \in s.seen
        BY <1>1, <1>3 DEF SessionTableOK, EnrolledSeen
      <4>2. to # None
        BY <1>1, PrincipalsAssumption
      <4>3. QED
        BY <3>1, <4>1, <4>2, <1>1, <1>3, <1>5, <1>6, <1>7, <1>8
    <3>2. CASE x # m
      <4>1. t.holders[x] = s.holders[x] /\ t.seen = s.seen
        BY <3>2, <1>5, <1>6
      <4>2. s.holders[x] # None =>
              /\ s.holders[x] \in Keys
              /\ s.sessions[s.holders[x]].status \in {"active", "ended"}
              /\ s.sessions[s.holders[x]].member = x
        BY <1>2 DEF SessionTableOK, HoldersEnrolled
      <4>3. s.holders[x] # None => s.holders[x] \notin {from, to}
        BY <3>2, <4>2, <1>3
      <4>4. x \in s.seen <=> s.holders[x] # None
        BY DEF SessionTableOK, HoldersEnrolled
      <4>5. QED
        BY <4>1, <4>2, <4>3, <4>4, <1>7, <1>8
    <3>3. QED
      BY <3>1, <3>2
  <2>2. QED
    BY <2>1 DEF HoldersEnrolled
<1>14. QED
  BY <1>10, <1>11, <1>12, <1>13 DEF SessionTableOK, t

\* A renewal changes certificates only.
LEMMA RenewalKeepsTable ==
    ASSUME NEW s \in State, NEW ev \in Event, SessionTableOK(s), Vet(s, ev),
           ev.kind = "renewal"
    PROVE  SessionTableOK(Apply(s, ev))
<1> DEFINE t == Apply(s, ev)
           k0 == ev.body.session
<1>1. s.sessions \in [Keys -> Session]
  BY DEF State
<1>2. t.heads = s.heads /\ t.seen = s.seen /\ t.holders = s.holders
  <2>1. t.heads = s.heads
    BY ServerLeavesHeads, ServerKindAuthor DEF ServerKinds
  <2>2. QED
    BY <2>1 DEF Apply, HoldersAfter
<1>3. \A k \in Keys :
              /\ t.sessions[k].status = s.sessions[k].status
              /\ t.sessions[k].member = s.sessions[k].member
              /\ t.sessions[k].activatedBy = s.sessions[k].activatedBy
  <2> DEFINE A == [s.sessions EXCEPT ![k0].certs = @ \cup {ev.body.cert}]
  <2>1. t.sessions = [A EXCEPT ![k0].epoch = ev.body.epoch]
    BY DEF Apply, SessionsAfter
  <2>2. QED
    BY <1>1, <2>1 DEF Session
<1>4. t \in State
  BY ApplyType
<1>5. QED
  BY <1>2, <1>3, <1>4, SameTable

\* An event that a session signed: its author is active, so its head may move.
LEMMA MemberEventKeepsTable ==
    ASSUME NEW s \in State, NEW ev \in Event, SessionTableOK(s), Vet(s, ev),
           ev.kind \notin {"session-start", "session-end", "handoff", "renewal"}
    PROVE  SessionTableOK(Apply(s, ev))
<1> DEFINE t == Apply(s, ev)
<1>1. /\ s.holders \in [Members -> Keys \cup {None}]
      /\ s.heads \in [Keys -> Nat]
  BY DEF State
<1>2. t.seen = s.seen /\ t.holders = s.holders /\ t.sessions = s.sessions
  BY DEF Apply, HoldersAfter, SessionsAfter
<1>3. CASE ev.author \notin Keys
  <2>1. t.heads = s.heads
    BY <1>3 DEF Apply
  <2>2. t \in State
    BY ApplyType
  <2>3. QED
    BY <1>2, <2>1, <2>2, SameTable
<1>4. CASE ev.author \in Keys
  <2>1. s.sessions[ev.author].status = "active"
    <3>1. ev.author # Server /\ ev.author \notin Devices
      BY <1>4, PrincipalsAssumption
    <3>2. Resolves(s, ev.author, ev.cert, EpochFor(s, ev.kind)) /\ MayAuthor(s, ev)
      BY DEF Vet, Admit
    <3>3. QED
      BY <3>1, <3>2 DEF Resolves, MayAuthor, Live
  <2>2. \A k \in Keys : k # ev.author => t.heads[k] = s.heads[k]
    BY <1>1, <1>4 DEF Apply
  <2> HIDE DEF t
  <2>3. ActiveHolds(t)
    BY <1>2 DEF SessionTableOK, ActiveHolds
  <2>4. PendingWaits(t)
    BY <1>2, <2>1, <2>2 DEF SessionTableOK, PendingWaits
  <2>5. EnrolledSeen(t)
    BY <1>2, <2>1, <2>2 DEF SessionTableOK, EnrolledSeen
  <2>6. HoldersEnrolled(t)
    BY <1>1, <1>2 DEF SessionTableOK, HoldersEnrolled
  <2>7. QED
    BY <2>3, <2>4, <2>5, <2>6 DEF SessionTableOK, t
<1>5. QED
  BY <1>3, <1>4

\* Whatever event passes the vetting, the session table stays consistent.
THEOREM VettedKeepsTable ==
    ASSUME NEW s \in State, NEW ev \in Event, SessionTableOK(s), Vet(s, ev)
    PROVE  SessionTableOK(Apply(s, ev))
BY StartKeepsTable, EndKeepsTable, HandoffKeepsTable, RenewalKeepsTable,
   MemberEventKeepsTable


-----------------------------------------------------------------------------
(* The inductive invariant. *)

\* A consumed invite was issued, so its token can never be invited again, and
\* an issued one is for a member.
InvitesKnown(s) ==
    \A t \in Tokens :
        /\ s.invites[t].consumed => s.invites[t].event # 0
        /\ s.invites[t].event # 0 => s.invites[t].member \in Members

\* What the log says was enrolled, the state knows as enrolled.
StartsKnown(s, l) ==
    \A i \in Starts(l) :
        /\ s.invites[l[i].body.token].consumed
        /\ s.sessions[l[i].body.session].status # "absent"

\* What the log says has ended, the state knows as ended.
EndsKnown(s, l) ==
    \A i \in DOMAIN l : \A k \in Keys :
        Ends(l[i], k) => s.sessions[k].status = "ended"

Sound(s, l) ==
    /\ s \in State
    /\ l \in Seq(Event)
    /\ Len(l) = s.admitted
    /\ SessionTableOK(s)
    /\ InvitesKnown(s)
    /\ s.handoffs \subseteq 0..s.admitted
    /\ StartsKnown(s, l)
    /\ EndsKnown(s, l)
    /\ EnrolledOnce(l)
    /\ SilentOnceEnded(l)

-----------------------------------------------------------------------------
(* What one vetted event does. *)

\* What Append does to a log.
LEMMA AppendLog ==
    ASSUME NEW l \in Seq(Event), NEW ev \in Event
    PROVE  /\ Append(l, ev) \in Seq(Event)
           /\ Len(Append(l, ev)) = Len(l) + 1
           /\ DOMAIN Append(l, ev) = DOMAIN l \cup {Len(l) + 1}
           /\ \A i \in DOMAIN l : Append(l, ev)[i] = l[i] /\ i < Len(l) + 1
           /\ Append(l, ev)[Len(l) + 1] = ev
<1>1. DOMAIN l = 1..Len(l) /\ Len(l) \in Nat
  OBVIOUS
<1>2. DOMAIN Append(l, ev) = 1..(Len(l) + 1)
  OBVIOUS
<1>3. QED
  BY <1>1, <1>2

\* An event of each kind has a body of that kind.
LEMMA EventBodies ==
    ASSUME NEW ev \in Event
    PROVE  /\ ev.kind = "invite" => ev.body.token \in Tokens
           /\ ev.kind = "session-start" =>
                 ev.body.token \in Tokens /\ ev.body.session \in Keys
           /\ ev.kind = "session-end" => ev.body.session \in Keys
           /\ ev.kind = "renewal" => ev.body.session \in Keys
           /\ ev.kind = "handoff" =>
                 /\ ev.body.approval.from \in Keys
                 /\ ev.body.approval.to \in Keys
                 /\ ev.body.approval.member \in Members
BY DEF Event, ServerEvents, Approval

\* The status of each session after an event.
LEMMA StatusAfter ==
    ASSUME NEW s \in State, NEW ev \in Event, NEW k \in Keys
    PROVE  /\ ev.kind = "session-start" =>
                 Apply(s, ev).sessions[k].status =
                    IF k = ev.body.session THEN Started(s, ev).status
                    ELSE s.sessions[k].status
           /\ ev.kind = "session-end" =>
                 Apply(s, ev).sessions[k].status =
                    IF k = ev.body.session THEN "ended" ELSE s.sessions[k].status
           /\ (ev.kind = "handoff" /\ ev.body.approval.from # ev.body.approval.to) =>
                 Apply(s, ev).sessions[k].status =
                    CASE k = ev.body.approval.from -> "ended"
                      [] k = ev.body.approval.to -> "active"
                      [] OTHER -> s.sessions[k].status
           /\ ev.kind \notin {"session-start", "session-end", "handoff"} =>
                 Apply(s, ev).sessions[k].status = s.sessions[k].status
<1>1. s.sessions \in [Keys -> Session] /\ Apply(s, ev).sessions = SessionsAfter(s, ev)
  BY DEF State, Apply
<1>2. CASE ev.kind = "session-start"
  BY <1>1, <1>2, EventBodies DEF SessionsAfter
<1>3. CASE ev.kind = "session-end"
  BY <1>1, <1>3, EventBodies DEF SessionsAfter, Session
<1>4. CASE ev.kind = "handoff"
  <2> DEFINE from == ev.body.approval.from
             to == ev.body.approval.to
             A == [s.sessions EXCEPT ![from].status = "ended"]
             B == [A EXCEPT ![to].status = "active"]
             C == [B EXCEPT ![to].activatedBy = s.admitted + 1]
  <2>1. SessionsAfter(s, ev) = C
    BY <1>4 DEF SessionsAfter
  <2>2. from \in Keys /\ to \in Keys
    BY <1>4, EventBodies
  <2>3. /\ A \in [Keys -> Session]
        /\ A[k].status = IF k = from THEN "ended" ELSE s.sessions[k].status
    BY <1>1, <2>2 DEF Session, Statuses
  <2>4. /\ B \in [Keys -> Session]
        /\ B[k].status = IF k = to THEN "active" ELSE A[k].status
    <3> HIDE DEF A, from, to
    <3> QED BY <2>2, <2>3 DEF Session, Statuses
  <2>5. C[k].status = B[k].status
    <3>1. B \in [Keys -> Session]
      BY <2>4
    <3> HIDE DEF B, from, to
    <3>2. CASE k # to
      BY <3>1, <3>2
    <3>3. CASE k = to
      <4>1. C[k] = [B[k] EXCEPT !.activatedBy = s.admitted + 1]
        BY <3>1, <3>3
      <4>2. B[k] \in Session
        BY <3>1
      <4>3. QED
        BY <4>1, <4>2 DEF Session
    <3>4. QED
      BY <3>2, <3>3
  <2> HIDE DEF A, B, C
  <2>6. QED
    BY <1>1, <1>4, <2>1, <2>3, <2>4, <2>5
<1>5. CASE ev.kind = "renewal"
  <2> DEFINE A == [s.sessions EXCEPT ![ev.body.session].certs = @ \cup {ev.body.cert}]
  <2>1. SessionsAfter(s, ev) = [A EXCEPT ![ev.body.session].epoch = ev.body.epoch]
    BY <1>5 DEF SessionsAfter
  <2>2. s.sessions[k] \in Session /\ DOMAIN s.sessions = Keys
    BY <1>1
  <2>3. DOMAIN A = Keys
    BY <2>2
  <2>4. A[k] = IF k = ev.body.session
               THEN [s.sessions[k] EXCEPT !.certs = @ \cup {ev.body.cert}]
               ELSE s.sessions[k]
    BY <1>1, <2>2
  <2>5. A[k].status = s.sessions[k].status /\ DOMAIN A[k] = DOMAIN s.sessions[k]
    BY <2>2, <2>4 DEF Session
  <2> HIDE DEF A
  <2>6. [A EXCEPT ![ev.body.session].epoch = ev.body.epoch][k]
            = IF k = ev.body.session THEN [A[k] EXCEPT !.epoch = ev.body.epoch] ELSE A[k]
    BY <1>1, <2>3
  <2>7. [A[k] EXCEPT !.epoch = ev.body.epoch].status = A[k].status
    BY <2>2, <2>5 DEF Session
  <2>8. QED
    BY <1>1, <1>5, <2>1, <2>5, <2>6, <2>7
<1>6. CASE ev.kind \notin {"session-start", "session-end", "handoff", "renewal"}
  BY <1>1, <1>6 DEF SessionsAfter
<1>7. QED
  BY <1>2, <1>3, <1>4, <1>5, <1>6

\* A hand-off moves the role from its holder to a pending session, so between
\* two different sessions.
LEMMA HandoffMovesRole ==
    ASSUME NEW s \in State, NEW ev \in Event, SessionTableOK(s), Vet(s, ev),
           ev.kind = "handoff"
    PROVE  /\ ev.body.approval.from # ev.body.approval.to
           /\ s.sessions[ev.body.approval.to].status = "pending"
           /\ s.sessions[ev.body.approval.to].member = ev.body.approval.member
           /\ s.holders[ev.body.approval.member] = ev.body.approval.from
<1>1. /\ ev.body.approval.to \in Keys
      /\ s.sessions[ev.body.approval.to].status = "pending"
      /\ s.sessions[ev.body.approval.to].member = ev.body.approval.member
      /\ s.holders[ev.body.approval.member] = ev.body.approval.from
  BY EventBodies DEF Vet, Check, HandoffOk
<1>2. QED
  BY <1>1 DEF SessionTableOK, PendingWaits

\* A session never becomes unknown, and one that has ended stays so.
LEMMA VettedAges ==
    ASSUME NEW s \in State, NEW ev \in Event, SessionTableOK(s), Vet(s, ev),
           NEW k \in Keys
    PROVE  /\ s.sessions[k].status # "absent"
                 => Apply(s, ev).sessions[k].status # "absent"
           /\ s.sessions[k].status = "ended"
                 => Apply(s, ev).sessions[k].status = "ended"
<1>1. CASE ev.kind = "session-start"
  <2>1. s.sessions[ev.body.session].status = "absent"
    BY <1>1 DEF Vet, Check, SessionStartOk
  <2>2. QED
    BY <1>1, <2>1, StatusAfter DEF Started
<1>2. CASE ev.kind = "handoff"
  BY <1>2, StatusAfter, HandoffMovesRole
<1>3. CASE ev.kind \notin {"session-start", "handoff"}
  BY <1>3, StatusAfter
<1>4. QED
  BY <1>1, <1>2, <1>3

\* Whoever signs, approves or is renewed is a live session.
LEMMA SignersLive ==
    ASSUME NEW s \in State, NEW ev \in Event, Vet(s, ev), NEW k \in Keys,
           k \in Signers(ev) \/ Renews(ev, k)
    PROVE  Live(s, k)
<1>1. k # Server /\ k \notin Devices
  BY PrincipalsAssumption
<1>2. CASE k = ev.author
  BY <1>1, <1>2 DEF Vet, Resolves
<1>3. CASE ev.kind = "handoff" /\ k = ev.body.approver
  <2>1. ApproverOk(s, ev.body.approval.member, k, ev.body.cert, EpochFor(s, ev.kind))
    BY <1>3 DEF Vet, Check, HandoffOk
  <2>2. QED
    BY <1>1, <2>1 DEF ApproverOk, Resolves
<1>4. CASE Renews(ev, k)
  BY <1>4 DEF Renews, Vet, Check, RenewalOk
<1>5. QED
  BY <1>2, <1>3, <1>4 DEF Signers

\* The invites an event leaves: one consumed stays consumed and issued, and a
\* session-start consumes its own.
LEMMA VettedInvites ==
    ASSUME NEW s \in State, NEW ev \in Event, InvitesKnown(s), Vet(s, ev)
    PROVE  /\ InvitesKnown(Apply(s, ev))
           /\ \A t \in Tokens : s.invites[t].consumed
                                   => Apply(s, ev).invites[t].consumed
           /\ ev.kind = "session-start" =>
                 Apply(s, ev).invites[ev.body.token].consumed
<1>1. s.invites \in [Tokens -> Invite] /\ s.admitted \in Nat
      /\ Apply(s, ev).invites = InvitesAfter(s, ev)
  BY DEF State, Apply
<1>2. CASE ev.kind = "invite"
  <2>1. /\ s.invites[ev.body.token].event = 0
        /\ ev.body.token \in Tokens
        /\ ev.body.member \in Members
    BY <1>2, EventBodies DEF Vet, Check, InviteOk, OnRoster
  <2>2. ~ s.invites[ev.body.token].consumed
    BY <2>1 DEF InvitesKnown
  <2>3. QED
    BY <1>1, <1>2, <2>1, <2>2 DEF InvitesAfter, InvitesKnown
<1>3. CASE ev.kind = "session-start"
  <2>1. s.invites[ev.body.token].event # 0 /\ ev.body.token \in Tokens
    BY <1>3, EventBodies DEF Vet, Check, SessionStartOk
  <2>2. QED
    BY <1>1, <1>3, <2>1 DEF InvitesAfter, InvitesKnown
<1>4. CASE ev.kind \notin {"invite", "session-start"}
  BY <1>1, <1>4 DEF InvitesAfter, InvitesKnown
<1>5. QED
  BY <1>2, <1>3, <1>4

-----------------------------------------------------------------------------
(* One vetted event keeps the invariant. *)

\* The log's session-starts stay known, and each is a new one.
LEMMA VettedStarts ==
    ASSUME NEW s, NEW l, Sound(s, l), NEW ev \in Event, Vet(s, ev)
    PROVE  StartsKnown(Apply(s, ev), Append(l, ev)) /\ EnrolledOnce(Append(l, ev))
<1> DEFINE n == Len(l) + 1
           g == Append(l, ev)
<1>1. s \in State /\ l \in Seq(Event) /\ SessionTableOK(s) /\ InvitesKnown(s)
      /\ StartsKnown(s, l) /\ EnrolledOnce(l)
  BY DEF Sound
<1>2. /\ DOMAIN g = DOMAIN l \cup {n}
      /\ \A i \in DOMAIN l : g[i] = l[i] /\ i < n
      /\ g[n] = ev
  BY <1>1, AppendLog
<1>3. \A i \in DOMAIN l : l[i] \in Event
  BY <1>1
<1> HIDE DEF g, n
<1>4. \A i \in Starts(l) : l[i].body.token \in Tokens /\ l[i].body.session \in Keys
  BY <1>3, EventBodies DEF Starts
<1>5. \A i \in Starts(g) :
         \/ i \in Starts(l) /\ g[i] = l[i]
         \/ i = n /\ g[i] = ev /\ ev.kind = "session-start"
  BY <1>2 DEF Starts
<1>6. StartsKnown(Apply(s, ev), g)
  <2>1. ASSUME NEW i \in Starts(g)
        PROVE  /\ Apply(s, ev).invites[g[i].body.token].consumed
               /\ Apply(s, ev).sessions[g[i].body.session].status # "absent"
    <3>1. CASE i \in Starts(l) /\ g[i] = l[i]
      <4>1. /\ s.invites[l[i].body.token].consumed
            /\ s.sessions[l[i].body.session].status # "absent"
        BY <1>1, <3>1 DEF StartsKnown
      <4>2. Apply(s, ev).invites[l[i].body.token].consumed
        BY <1>1, <1>4, <3>1, <4>1, VettedInvites
      <4>3. Apply(s, ev).sessions[l[i].body.session].status # "absent"
        BY <1>1, <1>4, <3>1, <4>1, VettedAges
      <4>4. QED
        BY <3>1, <4>2, <4>3
    <3>2. CASE i = n /\ g[i] = ev /\ ev.kind = "session-start"
      <4>1. Apply(s, ev).invites[ev.body.token].consumed
        BY <1>1, <3>2, VettedInvites
      <4>2. Apply(s, ev).sessions[ev.body.session].status # "absent"
        BY <1>1, <3>2, EventBodies, StatusAfter DEF Started
      <4>3. QED
        BY <3>2, <4>1, <4>2
    <3>3. QED
      BY <1>5, <3>1, <3>2
  <2>2. QED
    BY <2>1 DEF StartsKnown
<1>7. EnrolledOnce(g)
  <2>1. ev.kind = "session-start" =>
           /\ ~ s.invites[ev.body.token].consumed
           /\ s.sessions[ev.body.session].status = "absent"
    BY DEF Vet, Check, SessionStartOk
  <2>2. ev.kind = "session-start" =>
           \A i \in Starts(l) : /\ l[i].body.token # ev.body.token
                                /\ l[i].body.session # ev.body.session
    BY <1>1, <2>1 DEF StartsKnown
  <2>3. QED
    BY <1>1, <1>5, <2>2 DEF EnrolledOnce
<1>8. QED
  BY <1>6, <1>7 DEF g

\* The log's ended sessions stay known as ended, and the event rests on none.
LEMMA VettedEnds ==
    ASSUME NEW s, NEW l, Sound(s, l), NEW ev \in Event, Vet(s, ev)
    PROVE  EndsKnown(Apply(s, ev), Append(l, ev)) /\ SilentOnceEnded(Append(l, ev))
<1> DEFINE n == Len(l) + 1
           g == Append(l, ev)
<1>1. s \in State /\ l \in Seq(Event) /\ SessionTableOK(s)
      /\ EndsKnown(s, l) /\ SilentOnceEnded(l)
  BY DEF Sound
<1>2. /\ DOMAIN g = DOMAIN l \cup {n}
      /\ \A i \in DOMAIN l : g[i] = l[i] /\ i < n /\ i \in Nat
      /\ g[n] = ev
      /\ n \in Nat
  BY <1>1, AppendLog
<1> HIDE DEF g, n
<1>3. EndsKnown(Apply(s, ev), g)
  <2>1. ASSUME NEW i \in DOMAIN g, NEW k \in Keys, Ends(g[i], k)
        PROVE  Apply(s, ev).sessions[k].status = "ended"
    <3>1. CASE i \in DOMAIN l
      <4>1. s.sessions[k].status = "ended"
        BY <1>1, <1>2, <2>1, <3>1 DEF EndsKnown
      <4>2. QED
        BY <1>1, <4>1, VettedAges
    <3>2. CASE i = n
      <4>1. Ends(ev, k)
        BY <1>2, <2>1, <3>2
      <4>2. CASE ev.kind = "session-end" /\ ev.body.session = k
        BY <1>1, <4>2, StatusAfter
      <4>3. CASE ev.kind = "handoff" /\ ev.body.approval.from = k
        BY <1>1, <4>3, StatusAfter, HandoffMovesRole
      <4>4. QED
        BY <4>1, <4>2, <4>3 DEF Ends
    <3>3. QED
      BY <1>2, <3>1, <3>2
  <2>2. QED
    BY <2>1 DEF EndsKnown
<1>4. SilentOnceEnded(g)
  <2>1. ASSUME NEW i \in DOMAIN g, NEW j \in DOMAIN g, i < j,
               NEW k \in Keys, Ends(g[i], k)
        PROVE  k \notin Signers(g[j]) /\ ~Renews(g[j], k)
    <3>1. i \in DOMAIN l
      BY <1>2, <2>1
    <3>2. CASE j \in DOMAIN l
      BY <1>1, <1>2, <2>1, <3>1, <3>2 DEF SilentOnceEnded
    <3>3. CASE j = n
      <4>1. s.sessions[k].status = "ended"
        BY <1>1, <1>2, <2>1, <3>1 DEF EndsKnown
      <4>2. ~Live(s, k)
        BY <4>1 DEF Live
      <4>3. k \notin Signers(ev) /\ ~Renews(ev, k)
        BY <1>1, <4>2, SignersLive
      <4>4. QED
        BY <1>2, <3>3, <4>3
    <3>4. QED
      BY <1>2, <3>2, <3>3
  <2>2. QED
    BY <2>1 DEF SilentOnceEnded
<1>5. QED
  BY <1>3, <1>4 DEF g

\* Appending a vetted event to a log and taking it into the state derived from
\* that log keeps the two in agreement.
LEMMA VettedKeepsSound ==
    ASSUME NEW s, NEW l, Sound(s, l), NEW ev \in Event, Vet(s, ev)
    PROVE  Sound(Apply(s, ev), Append(l, ev))
<1>1. s \in State /\ l \in Seq(Event) /\ SessionTableOK(s) /\ InvitesKnown(s)
      /\ Len(l) = s.admitted
  BY DEF Sound
<1>2. /\ Apply(s, ev) \in State
      /\ SessionTableOK(Apply(s, ev))
      /\ InvitesKnown(Apply(s, ev))
  BY <1>1, ApplyType, VettedKeepsTable, VettedInvites
<1>3. /\ Append(l, ev) \in Seq(Event)
      /\ Len(Append(l, ev)) = Apply(s, ev).admitted
  BY <1>1, AppendLog DEF Apply
<1>4. Apply(s, ev).handoffs \subseteq 0..Apply(s, ev).admitted
  <2>1. s.handoffs \subseteq 0..s.admitted /\ s.admitted \in Nat
    BY DEF Sound, State
  <2>2. Apply(s, ev).admitted = s.admitted + 1
        /\ Apply(s, ev).handoffs \subseteq s.handoffs \cup {s.admitted + 1}
    BY DEF Apply
  <2>3. 0..s.admitted \subseteq 0..(s.admitted + 1) /\ s.admitted + 1 \in 0..(s.admitted + 1)
    BY <2>1
  <2>4. QED
    BY <2>1, <2>2, <2>3, Zenon
<1>5. QED
  BY <1>2, <1>3, <1>4, VettedStarts, VettedEnds DEF Sound

-----------------------------------------------------------------------------
(* The server's steps. *)

\* What a step of the server may do to the log: nothing, append one vetted
\* event that takes no authority away, or append a vetted event and the epoch
\* bump that follows it.
Admits ==
    \/ UNCHANGED <<st, log, ends>>
    \/ \E a \in Event : Vet(st, a) /\ ~TakesAuthority(st.roster, a) /\ Commit1(a)
    \/ \E a \in Event : Vet(st, a) /\ Vet(Apply(st, a), Bump) /\ Commit2(a, Bump)

\* A server event with a body of its kind is an event.
LEMMA ServerEventTypes ==
    /\ \A m \in Members, t \in Tokens :
          ServerEvent("invite", [member |-> m, token |-> t]) \in Event
    /\ \A m \in Members, t \in Tokens, k \in Keys, c \in Nat :
          ServerEvent("session-start", [member |-> m, token |-> t,
                                        session |-> k, cert |-> c]) \in Event
    /\ \A k \in Keys : ServerEvent("session-end", [session |-> k]) \in Event
    /\ \A e \in Nat : EpochEvent(e) \in Event
    /\ \A k \in Keys, e, c \in Nat :
          ServerEvent("renewal", [session |-> k, epoch |-> e, cert |-> c]) \in Event
    /\ \A d \in Devices : ServerEvent("device-cert", [device |-> d]) \in Event
    /\ \A a \in Approval, w \in Keys \cup Devices, c \in Nat :
          ServerEvent("handoff", [approval |-> a, resume |-> a.resume,
                                  approver |-> w, cert |-> c]) \in Event
    /\ \A r \in Roster, q \in Nat :
          ServerEvent("roster", [roster |-> r, replaces |-> q]) \in Event
BY DEF ServerEvent, EpochEvent, Event, ServerEvents, Approval

\* So is an event that a session or a device submits.
LEMMA MemberEventTypes ==
    /\ \A k \in Keys, c, p \in Nat :
          MemberEvent("work", k, c, p, [kind |-> "work"]) \in Event
    /\ \A k \in Keys, c, p, q \in Nat, r \in Roster :
          MemberEvent("roster", k, c, p, [roster |-> r, replaces |-> q]) \in Event
    /\ \A d \in Devices : MemberEvent("answer", d, 0, 0, [kind |-> "answer"]) \in Event
BY DEF MemberEvent, Event

\* What callers may present are certificates, indices and approvals.
LEMMA PresentedTypes ==
    ASSUME TypeOK, Sound(st, log)
    PROVE  /\ \A w \in Keys \cup Devices : CertsOf(w) \subseteq Nat
           /\ \A k \in Keys : PrevsOf(k) \subseteq Nat
           /\ \A f, t \in Enrolled : Approvals(f, t) \subseteq Approval
           /\ st.rosterId \in Nat /\ st.epoch \in Nat /\ st.epoch + 1 \in Nat
<1>1. /\ st.sessions \in [Keys -> Session]
      /\ st.heads \in [Keys -> Nat]
      /\ st.handoffs \subseteq Nat
      /\ st.seen \subseteq Members
      /\ st.rosterId \in Nat /\ st.epoch \in Nat
  BY DEF TypeOK, State
<1>2. \A w \in Keys \cup Devices : CertsOf(w) \subseteq Nat
  BY <1>1 DEF CertsOf, Session
<1>3. \A k \in Keys : PrevsOf(k) \subseteq Nat
  BY <1>1 DEF PrevsOf, Session
<1>4. \A k \in Keys : st.sessions[k].status # "absent" => st.sessions[k].member \in Members
  BY <1>1 DEF Sound, SessionTableOK, EnrolledSeen
<1>5. \A k \in Keys : st.sessions[k].start \in Nat /\ st.heads[k] \in Nat
  BY <1>1 DEF Session
<1>6. \A f, t \in Enrolled : Approvals(f, t) \subseteq Approval
  BY <1>4, <1>5 DEF Approvals, Approval, Enrolled
<1>7. QED
  BY <1>1, <1>2, <1>3, <1>6

\* A roster is committed alone or with the bump it needs.
LEMMA CommitRosterAdmits ==
    ASSUME NEW ev \in Event, ev.kind = "roster", CommitRoster(ev)
    PROVE  Admits
BY DEF CommitRoster, Prepares1, Prepares2, Admits, TakesAuthority

\* Every step admits what it vetted, and nothing else.
LEMMA StepVets ==
    ASSUME TypeOK, Sound(st, log), Next
    PROVE  Admits
<1>1. held \in [Nonces -> Held] /\ st \in State
  BY DEF TypeOK
<1>2. ASSUME NEW t \in Tokens, NEW m \in Members, InviteMember(t, m)
      PROVE  Admits
  BY <1>2, ServerEventTypes
     DEF InviteMember, Prepares1, Admits, TakesAuthority, ServerEvent
<1>3. ASSUME NEW n \in Nonces, EnrollFinish(n)
      PROVE  Admits
  <2> DEFINE c == held[n]
             ev == ServerEvent("session-start",
                     [member |-> st.invites[c.token].member, token |-> c.token,
                      session |-> c.key, cert |-> st.epoch])
  <2>1. c.key \in Keys /\ c.token \in Tokens
    BY <1>1, <1>3 DEF EnrollFinish, Held, NoChallenge
  <2>2. CASE Prepares1(ev) /\ Commit1(ev)
    <3>1. st.invites[c.token].event # 0
      BY <2>2 DEF Prepares1, Vet, Check, SessionStartOk, ServerEvent
    <3>2. st.invites[c.token].member \in Members
      BY <2>1, <3>1 DEF Sound, InvitesKnown
    <3>3. ev \in Event
      BY <2>1, <3>2, PresentedTypes, ServerEventTypes
    <3>4. QED
      BY <2>2, <3>3 DEF Prepares1, Admits, TakesAuthority, ServerEvent
  <2>3. CASE UNCHANGED <<st, log, ends>>
    BY <2>3 DEF Admits
  <2>4. QED
    BY <1>3, <2>2, <2>3 DEF EnrollFinish
<1>4. ASSUME NEW n \in Nonces, RenewFinish(n)
      PROVE  Admits
  <2> DEFINE c == held[n]
             ev == ServerEvent("renewal",
                     [session |-> c.key, epoch |-> c.epoch, cert |-> st.epoch])
  <2>1. c.key \in Keys /\ c.epoch \in Nat
    BY <1>1, <1>4 DEF RenewFinish, Held, NoChallenge
  <2>2. ev \in Event
    BY <2>1, PresentedTypes, ServerEventTypes
  <2>3. \/ Prepares1(ev) /\ Commit1(ev)
        \/ UNCHANGED <<st, log, ends>>
    BY <1>4 DEF RenewFinish
  <2>4. QED
    BY <2>2, <2>3 DEF Prepares1, Admits, TakesAuthority, ServerEvent
<1>5. ASSUME NEW k \in Keys, EndSession(k)
      PROVE  Admits
  BY <1>5, ServerEventTypes DEF EndSession, Prepares2, Admits
<1>6. ASSUME NEW f \in Enrolled, NEW t \in Enrolled, NEW w \in Keys \cup Devices,
             NEW a \in Approvals(f, t), NEW c \in CertsOf(w), Handoff(a, w, c)
      PROVE  Admits
  <2>1. a \in Approval /\ c \in Nat
    BY PresentedTypes
  <2>2. QED
    BY <1>6, <2>1, ServerEventTypes DEF Handoff, Prepares2, Admits
<1>7. ASSUME NEW r \in Rosters, ReplaceRoster(r)
      PROVE  Admits
  <2>1. r \in Roster /\ st.rosterId \in Nat
    BY BoundsAssumption, PresentedTypes
  <2>2. QED
    BY <1>7, <2>1, ServerEventTypes, CommitRosterAdmits DEF ReplaceRoster, ServerEvent
<1>8. ASSUME NEW d \in Devices, RegisterDevice(d)
      PROVE  Admits
  BY <1>8, ServerEventTypes
     DEF RegisterDevice, Prepares1, Admits, TakesAuthority, ServerEvent
<1>9. ASSUME NEW k \in Keys, NEW c \in CertsOf(k), NEW p \in PrevsOf(k),
             AdmitWork(k, c, p)
      PROVE  Admits
  <2>1. c \in Nat /\ p \in Nat
    BY PresentedTypes
  <2>2. QED
    BY <1>9, <2>1, MemberEventTypes
       DEF AdmitWork, Prepares1, Admits, TakesAuthority, MemberEvent
<1>10. ASSUME NEW k \in Keys, NEW c \in CertsOf(k), NEW p \in PrevsOf(k),
              NEW r \in Rosters, NEW q \in {0, st.rosterId},
              AdmitRoster(k, c, p, r, q)
       PROVE  Admits
  <2>1. c \in Nat /\ p \in Nat /\ q \in Nat /\ r \in Roster
    BY BoundsAssumption, PresentedTypes
  <2>2. QED
    BY <1>10, <2>1, MemberEventTypes, CommitRosterAdmits DEF AdmitRoster, MemberEvent
<1>11. ASSUME NEW d \in Devices, AdmitAnswer(d)
       PROVE  Admits
  BY <1>11, MemberEventTypes
     DEF AdmitAnswer, Prepares1, Admits, TakesAuthority, MemberEvent
<1>12. ASSUME UNCHANGED <<st, log, ends>>
       PROVE  Admits
  BY <1>12 DEF Admits
<1>13. CASE Entry
  BY <1>2, <1>3, <1>4, <1>12, <1>13
     DEF Entry, EnrollBegin, RenewBegin, RenewalChallenges, Misanswer, Issue
<1>14. CASE Administration
  BY <1>5, <1>6, <1>7, <1>8, <1>14 DEF Administration
<1>15. CASE Submission
  BY <1>9, <1>10, <1>11, <1>15 DEF Submission
<1>16. CASE Restart
  BY <1>12, <1>16 DEF Restart
<1>17. QED
  BY <1>13, <1>14, <1>15, <1>16 DEF Next

\* Challenges are issued for keys and tokens, and spent.
LEMMA StepHeld ==
    ASSUME TypeOK, Next
    PROVE  held' \in [Nonces -> Held]
<1>1. held \in [Nonces -> Held] /\ NoChallenge \in Held /\ st.epoch \in Nat
  BY DEF TypeOK, Held, State
<1>2. \A k \in Keys : RenewChallenge(k) \in Held
  BY <1>1 DEF RenewChallenge, Held
<1>3. ASSUME NEW n \in Nonces, Spend(n)
      PROVE  held' \in [Nonces -> Held]
  BY <1>1, <1>3 DEF Spend
<1>4. ASSUME NEW n \in Nonces, NEW t \in Tokens, NEW k \in Keys, EnrollBegin(n, t, k)
      PROVE  held' \in [Nonces -> Held]
  BY <1>1, <1>4 DEF EnrollBegin, Issue, Held
<1>5. ASSUME NEW n \in Nonces, NEW k \in Keys, RenewBegin(n, k)
      PROVE  held' \in [Nonces -> Held]
  BY <1>1, <1>2, <1>5 DEF RenewBegin, Issue
<1>6. ASSUME RenewalChallenges
      PROVE  held' \in [Nonces -> Held]
  <2> DEFINE due == {k \in LiveSessions(st) : st.sessions[k].epoch < st.epoch}
             free == {n \in Nonces : held[n].purpose = "none"}
  <2>1. PICK f \in [due -> free] :
           held' = [n \in Nonces |->
                       IF \E k \in due : f[k] = n
                       THEN RenewChallenge(CHOOSE k \in due : f[k] = n)
                       ELSE held[n]]
    BY <1>6 DEF RenewalChallenges
  <2>2. \A n \in Nonces : (\E k \in due : f[k] = n)
                             => (CHOOSE k \in due : f[k] = n) \in Keys
    BY DEF LiveSessions
  <2> HIDE DEF due, free
  <2>3. QED
    BY <1>1, <1>2, <2>1, <2>2
<1>7. CASE Entry
  BY <1>1, <1>3, <1>4, <1>5, <1>6, <1>7
     DEF Entry, EnrollFinish, RenewFinish, Misanswer, InviteMember
<1>8. CASE Administration
  BY <1>1, <1>8
     DEF Administration, EndSession, Handoff, ReplaceRoster, RegisterDevice
<1>9. CASE Submission
  BY <1>1, <1>9 DEF Submission, AdmitWork, AdmitRoster, AdmitAnswer
<1>10. CASE Restart
  BY <1>1, <1>10 DEF Restart
<1>11. QED
  BY <1>7, <1>8, <1>9, <1>10 DEF Next

-----------------------------------------------------------------------------
(* The theorems. *)

IInv == TypeOK /\ Sound(st, log)

\* Genesis satisfies the invariant.
LEMMA InitIInv == Init => IInv
<1> SUFFICES ASSUME Init PROVE IInv
  OBVIOUS
<1>1. st = GenesisState(Genesis) /\ log = <<>> /\ ends = {}
      /\ held = [n \in Nonces |-> NoChallenge]
  BY DEF Init
<1>2. st \in State
  BY <1>1, BoundsAssumption
     DEF GenesisState, State, NoInvite, NoSession, Invite, Session, Statuses
<1>3. st.admitted = 0
  BY <1>1 DEF GenesisState
<1>4. held \in [Nonces -> Held]
  BY <1>1 DEF Held
<1>5. TypeOK
  BY <1>1, <1>2, <1>3, <1>4 DEF TypeOK
<1>6. /\ \A k \in Keys : st.sessions[k].status = "absent" /\ st.heads[k] = 0
      /\ \A m \in Members : st.holders[m] = None
      /\ st.seen = {}
      /\ \A t \in Tokens : ~st.invites[t].consumed /\ st.invites[t].event = 0
  BY <1>1 DEF GenesisState, NoSession, NoInvite
<1>7. SessionTableOK(st) /\ InvitesKnown(st)
  BY <1>6 DEF SessionTableOK, ActiveHolds, PendingWaits, EnrolledSeen,
              HoldersEnrolled, InvitesKnown
<1>8. st.handoffs \subseteq 0..st.admitted
  BY <1>1 DEF GenesisState
<1>9. StartsKnown(st, log) /\ EndsKnown(st, log) /\ EnrolledOnce(log)
      /\ SilentOnceEnded(log)
  BY <1>1 DEF StartsKnown, EndsKnown, EnrolledOnce, SilentOnceEnded, Starts
<1>10. QED
  BY <1>1, <1>2, <1>3, <1>5, <1>7, <1>8, <1>9 DEF IInv, Sound

\* Admitting keeps the state and the log in agreement.
LEMMA AdmitsKeepsSound ==
    ASSUME Sound(st, log), Admits
    PROVE  Sound(st', log')
<1>1. CASE UNCHANGED <<st, log, ends>>
  BY <1>1
<1>2. ASSUME NEW a \in Event, Vet(st, a), Commit1(a)
      PROVE  Sound(st', log')
  BY <1>2, VettedKeepsSound DEF Commit1
<1>3. ASSUME NEW a \in Event, Vet(st, a), Vet(Apply(st, a), Bump), Commit2(a, Bump)
      PROVE  Sound(st', log')
  <2>1. st.epoch + 1 \in Nat /\ log \in Seq(Event)
    BY DEF Sound, State
  <2>2. Bump \in Event
    BY <2>1, ServerEventTypes DEF Bump
  <2>3. Sound(Apply(st, a), Append(log, a))
    BY <1>3, VettedKeepsSound
  <2>4. Sound(Apply(Apply(st, a), Bump), Append(Append(log, a), Bump))
    BY <1>3, <2>2, <2>3, VettedKeepsSound
  <2>5. Append(Append(log, a), Bump) = log \o <<a, Bump>>
    BY <2>1, <2>2
  <2>6. QED
    BY <1>3, <2>4, <2>5 DEF Commit2
<1>4. QED
  BY <1>1, <1>2, <1>3 DEF Admits

\* Admitting marks ends of frames only within the log.
LEMMA AdmitsEnds ==
    ASSUME TypeOK, Admits
    PROVE  ends' \subseteq 1..st'.admitted
<1>1. st.admitted \in Nat /\ ends \subseteq 1..st.admitted
  BY DEF TypeOK, State
<1>2. \A s, e : Apply(s, e).admitted = s.admitted + 1
  BY DEF Apply
<1>3. CASE UNCHANGED <<st, log, ends>>
  BY <1>1, <1>3
<1>4. ASSUME NEW a \in Event, Commit1(a)
      PROVE  ends' \subseteq 1..st'.admitted
  <2>1. st'.admitted = st.admitted + 1 /\ ends' = ends \cup {st.admitted + 1}
    BY <1>2, <1>4 DEF Commit1
  <2>2. st'.admitted \in Nat /\ 1..st.admitted \subseteq 1..st'.admitted
        /\ st.admitted + 1 \in 1..st'.admitted
    BY <1>1, <2>1
  <2>3. QED
    BY <1>1, <2>1, <2>2, Zenon
<1>5. ASSUME NEW a \in Event, Commit2(a, Bump)
      PROVE  ends' \subseteq 1..st'.admitted
  <2>1. st'.admitted = st.admitted + 2 /\ ends' = ends \cup {st.admitted + 2}
    BY <1>1, <1>2, <1>5 DEF Commit2
  <2>2. st'.admitted \in Nat /\ 1..st.admitted \subseteq 1..st'.admitted
        /\ st.admitted + 2 \in 1..st'.admitted
    BY <1>1, <2>1
  <2>3. QED
    BY <1>1, <2>1, <2>2, Zenon
<1>6. QED
  BY <1>3, <1>4, <1>5 DEF Admits

\* The invariant is inductive.
LEMMA NextIInv == IInv /\ [Next]_vars => IInv'
<1>1. ASSUME IInv, Next
      PROVE  IInv'
  <2>1. Admits
    BY <1>1, StepVets DEF IInv
  <2>2. Sound(st', log')
    BY <1>1, <2>1, AdmitsKeepsSound DEF IInv
  <2>3. held' \in [Nonces -> Held] /\ ends' \subseteq 1..st'.admitted
    BY <1>1, <2>1, StepHeld, AdmitsEnds DEF IInv
  <2>4. TypeOK'
    BY <2>2, <2>3 DEF TypeOK, Sound
  <2>5. QED
    BY <2>2, <2>4 DEF IInv
<1>2. ASSUME IInv, UNCHANGED vars
      PROVE  IInv'
  BY <1>2 DEF vars, IInv, TypeOK
<1>3. QED
  BY <1>1, <1>2

\* The invariant holds in every reachable state.
THEOREM Invariant == Spec => []IInv
<1>1. QED
  BY InitIInv, NextIInv, PTL DEF Spec

\* The server's state, challenges and log are well typed, and the state has
\* admitted exactly the events of the log.
THEOREM TypeCorrect == Spec => []TypeOK
<1>1. IInv => TypeOK
  BY DEF IInv
<1>2. QED
  BY <1>1, Invariant, PTL

\* A member has at most one active session, the one that holds its role.
THEOREM OneHolder == Spec => []SingleHolder
<1>1. IInv => SingleHolder
  BY DEF IInv, Sound, SingleHolder, SessionTableOK, ActiveHolds
<1>2. QED
  BY <1>1, Invariant, PTL

\* An invite enrolls one session, and a key is enrolled once.
THEOREM InvitesSpentOnce == Spec => []InviteSingleUse
<1>1. IInv => InviteSingleUse
  BY DEF IInv, Sound, InviteSingleUse
<1>2. QED
  BY <1>1, Invariant, PTL

\* Nothing in the log rests on a session after the event that ended it.
THEOREM EndedStaySilent == Spec => []NoZombieWrites
<1>1. IInv => NoZombieWrites
  BY DEF IInv, Sound, NoZombieWrites
<1>2. QED
  BY <1>1, Invariant, PTL

-----------------------------------------------------------------------------
(* The action property. *)

\* A vetted event moves a role only if it is a hand-off, to a pending session.
LEMMA VettedAgesState ==
    ASSUME NEW s, NEW l, Sound(s, l), NEW ev \in Event, Vet(s, ev)
    PROVE  Ages(s, Apply(s, ev))
<1> DEFINE t == Apply(s, ev)
<1>1. s \in State /\ SessionTableOK(s) /\ s.handoffs \subseteq 0..s.admitted
      /\ s.admitted \in Nat /\ s.epoch \in Nat
      /\ s.holders \in [Members -> Keys \cup {None}]
  BY DEF Sound, State
<1>2. t.epoch >= s.epoch
  BY <1>1 DEF Apply, EpochFor
<1>3. ASSUME NEW m \in Members, s.holders[m] # None, t.holders[m] # s.holders[m]
      PROVE  /\ t.handoffs # s.handoffs
             /\ s.sessions[s.holders[m]].member = m
             /\ t.sessions[s.holders[m]].status = "ended"
             /\ s.sessions[t.holders[m]].status = "pending"
  <2>1. m \in s.seen /\ s.sessions[s.holders[m]].member = m
    BY <1>1, <1>3 DEF SessionTableOK, HoldersEnrolled
  <2>2. t.holders = HoldersAfter(s, ev)
    BY DEF Apply
  <2>3. ev.kind = "handoff"
    BY <1>1, <1>3, <2>1, <2>2 DEF HoldersAfter
  <2> DEFINE a == ev.body.approval
  <2>4. /\ a.from # a.to
        /\ s.sessions[a.to].status = "pending"
        /\ s.sessions[a.to].member = a.member
        /\ s.holders[a.member] = a.from
        /\ a.from \in Keys /\ a.to \in Keys /\ a.member \in Members
    BY <1>1, <2>3, HandoffMovesRole, EventBodies
  <2>5. t.holders = [s.holders EXCEPT ![s.sessions[a.to].member] = a.to]
    BY <2>2, <2>3 DEF HoldersAfter
  <2>6. m = a.member /\ t.holders[m] = a.to
    BY <1>1, <1>3, <2>4, <2>5
  <2>7. t.sessions[a.from].status = "ended"
    BY <1>1, <2>3, <2>4, StatusAfter
  <2>8. t.handoffs # s.handoffs
    <3>1. t.handoffs = s.handoffs \cup {s.admitted + 1}
      BY <2>3 DEF Apply
    <3>2. s.admitted + 1 \notin s.handoffs
      BY <1>1
    <3>3. QED
      BY <3>1, <3>2
  <2>9. QED
    BY <2>1, <2>4, <2>6, <2>7, <2>8
<1>4. \A k \in Keys : s.sessions[k].status = "ended" => t.sessions[k].status = "ended"
  BY <1>1, VettedAges
<1>5. QED
  BY <1>2, <1>3, <1>4 DEF Ages

\* Every step of the server only ages sessions.
LEMMA AdmitsAges ==
    ASSUME Sound(st, log), Admits
    PROVE  Ages(st, st')
<1>1. st \in State /\ st.epoch \in Nat
  BY DEF Sound, State
<1>2. CASE UNCHANGED <<st, log, ends>>
  BY <1>1, <1>2 DEF Ages
<1>3. ASSUME NEW a \in Event, Vet(st, a), Commit1(a)
      PROVE  Ages(st, st')
  BY <1>3, VettedAgesState DEF Commit1
<1>4. ASSUME NEW a \in Event, Vet(st, a), Commit2(a, Bump)
      PROVE  Ages(st, st')
  <2> DEFINE t == Apply(st, a)
  <2>1. Ages(st, t) /\ t \in State
    BY <1>1, <1>4, VettedAgesState, ApplyType
  <2>2. Bump.kind = "epoch"
    BY DEF Bump, EpochEvent, ServerEvent
  <2> HIDE DEF t
  <2>3. /\ Apply(t, Bump).sessions = t.sessions
        /\ Apply(t, Bump).holders = t.holders
        /\ Apply(t, Bump).handoffs = t.handoffs
        /\ Apply(t, Bump).epoch = t.epoch + 1
    BY <2>2 DEF Apply, SessionsAfter, HoldersAfter, EpochFor
  <2>4. t.epoch \in Nat
    BY <2>1 DEF State
  <2>5. Ages(st, Apply(t, Bump))
    BY <1>1, <2>1, <2>3, <2>4 DEF Ages
  <2>6. QED
    BY <1>4, <2>5 DEF Commit2, t
<1>5. QED
  BY <1>2, <1>3, <1>4 DEF Admits

\* A session that ended stays ended, a role moves only by a hand-off from its
\* holder to a pending session, and the epoch never goes back.
THEOREM RolesMoveByHandoff == Spec => SessionsOnlyAge
<1>1. IInv /\ [Next]_vars => [Ages(st, st')]_vars
  <2>1. ASSUME IInv, Next
        PROVE  Ages(st, st')
    BY <2>1, StepVets, AdmitsAges DEF IInv
  <2>2. QED
    BY <2>1
<1>2. QED
  BY <1>1, Invariant, PTL DEF Spec, SessionsOnlyAge

-----------------------------------------------------------------------------
(* The latest of some indices. *)

\* Every nonempty set of naturals has a least element.
LEMMA LeastNatural ==
    ASSUME NEW T, T \subseteq Nat, T # {}
    PROVE  \E x \in T : \A y \in T : x <= y
<1>1. IsWellFoundedOn({p \in Nat \X Nat : p[1] < p[2]}, Nat)
  BY NatLessThanWellFounded DEF OpToRel
<1>2. PICK R : R = {p \in Nat \X Nat : p[1] < p[2]}
  OBVIOUS
<1>3. \A a, b \in Nat : a < b => <<a, b>> \in R
  BY <1>2
<1>4. IsWellFoundedOn(R, Nat)
  BY <1>1, <1>2
<1>5. PICK x \in T : \A y \in T : ~(<<y, x>> \in R)
  BY <1>4, WFMin
<1>6. \A y \in T : ~(y < x)
  BY <1>3, <1>5
<1>7. QED
  BY <1>6

\* The latest of some indices is one of them, and no other is later.
LEMMA LatestIsLast ==
    ASSUME NEW m \in Nat, NEW S, S \subseteq 1..m, S # {}
    PROVE  Latest(S) \in S /\ \A j \in S : j <= Latest(S)
<1> DEFINE T == {i \in Nat : m - i \in S}
<1>1. T # {}
  <2>1. PICK j \in S : TRUE
    OBVIOUS
  <2>2. j \in Nat /\ m - j \in Nat /\ m - (m - j) = j
    BY <2>1
  <2>3. QED
    BY <2>1, <2>2
<1>2. T \subseteq Nat
  OBVIOUS
<1> HIDE DEF T
<1>3. PICK x \in T : \A y \in T : x <= y
  BY <1>1, <1>2, LeastNatural
<1> USE DEF T
<1>4. ASSUME NEW j \in S
      PROVE  j <= m - x
  <2>1. j \in Nat /\ m - j \in Nat /\ m - (m - j) = j
    OBVIOUS
  <2>2. m - j \in T
    BY <2>1
  <2>3. QED
    BY <1>3, <2>1, <2>2
<1>5. m - x \in S
  OBVIOUS
<1>6. QED
  BY <1>4, <1>5 DEF Latest

\* An index later than all the others is the latest.
LEMMA LatestGrows ==
    ASSUME NEW n \in Nat, NEW S, S \subseteq 1..(n - 1)
    PROVE  Latest(S \union {n}) = n
<1>1. \A i \in S \union {n} : i <= n /\ i \in Nat
  OBVIOUS
<1>2. \A i \in S \union {n} : (\A j \in S \union {n} : j <= i) => i = n
  BY <1>1
<1>3. QED
  BY <1>1, <1>2 DEF Latest

-----------------------------------------------------------------------------
(* How what came before an index depends on the log. *)

\* What came before an index stays what it was when the log grows.
LEMMA BeforeStays ==
    ASSUME NEW l \in Seq(Event), NEW ev \in Event, NEW j \in 1..(Len(l) + 1)
    PROVE  /\ \A k : WrittenBefore(Append(l, ev), k, j) = WrittenBefore(l, k, j)
           /\ \A k : ActivationsBefore(Append(l, ev), k, j) = ActivationsBefore(l, k, j)
           /\ \A k : StartsBefore(Append(l, ev), k, j) = StartsBefore(l, k, j)
           /\ RosterBefore(Append(l, ev), j) = RosterBefore(l, j)
           /\ OwnersDelegate(Append(l, ev), j) = OwnersDelegate(l, j)
<1> DEFINE g == Append(l, ev)
<1>1. \A i \in 1..(j - 1) : g[i] = l[i]
  OBVIOUS
<1> HIDE DEF g
<1>2. \A k : WrittenBefore(g, k, j) = WrittenBefore(l, k, j)
  BY <1>1 DEF WrittenBefore
<1>3. \A k : ActivationsBefore(g, k, j) = ActivationsBefore(l, k, j)
  BY <1>1 DEF ActivationsBefore
<1>4. \A k : StartsBefore(g, k, j) = StartsBefore(l, k, j)
  BY <1>1 DEF StartsBefore
<1>5. RosterBefore(g, j) = RosterBefore(l, j)
  <2>1. RostersBefore(g, j) = RostersBefore(l, j)
    BY <1>1 DEF RostersBefore
  <2>2. RostersBefore(l, j) \subseteq 1..(j - 1) /\ j - 1 \in Nat
    BY DEF RostersBefore
  <2>3. RostersBefore(l, j) # {} => Latest(RostersBefore(l, j)) \in 1..(j - 1)
    BY <2>2, LatestIsLast
  <2>4. QED
    BY <1>1, <2>1, <2>3 DEF RosterBefore
<1>6. OwnersDelegate(g, j) = OwnersDelegate(l, j)
  <2>1. OwnersRosters(g, j) = OwnersRosters(l, j)
    BY <1>1 DEF OwnersRosters
  <2>2. OwnersRosters(l, j) \subseteq 1..(j - 1) /\ j - 1 \in Nat
    BY DEF OwnersRosters
  <2>3. OwnersRosters(l, j) # {} => Latest(OwnersRosters(l, j)) \in 1..(j - 1)
    BY <2>2, LatestIsLast
  <2>4. QED
    BY <1>1, <2>1, <2>3 DEF OwnersDelegate
<1>7. QED
  BY <1>2, <1>3, <1>4, <1>5, <1>6 DEF g

\* What the next index has before it: the new event too.
LEMMA BeforeGrows ==
    ASSUME NEW l \in Seq(Event), NEW ev \in Event, NEW n, n = Len(l) + 1
    PROVE  /\ \A k : WrittenBefore(Append(l, ev), k, n + 1) =
                        WrittenBefore(l, k, n) \union IF ev.author = k THEN {n} ELSE {}
           /\ \A k : ActivationsBefore(Append(l, ev), k, n + 1) =
                        ActivationsBefore(l, k, n) \union
                        IF ev.kind = "handoff" /\ ev.body.approval.to = k THEN {n} ELSE {}
           /\ \A k : StartsBefore(Append(l, ev), k, n + 1) =
                        StartsBefore(l, k, n) \union
                        IF ev.kind = "session-start" /\ ev.body.session = k THEN {n} ELSE {}
           /\ RosterBefore(Append(l, ev), n + 1) =
                 IF ev.kind = "roster" THEN ev.body.roster ELSE RosterBefore(l, n)
           /\ OwnersDelegate(Append(l, ev), n + 1) =
                 IF ev.kind = "roster" /\ ev.author = Server THEN ev.body.roster.delegate
                 ELSE OwnersDelegate(l, n)
<1> DEFINE g == Append(l, ev)
<1>1. /\ n \in Nat /\ n \in 1..n
      /\ 1..(n + 1 - 1) = 1..(n - 1) \union {n}
      /\ n \notin 1..(n - 1)
      /\ \A i \in 1..(n - 1) : g[i] = l[i]
      /\ g[n] = ev
  OBVIOUS
<1> HIDE DEF g
<1>2. \A k : WrittenBefore(g, k, n + 1) =
                WrittenBefore(l, k, n) \union IF ev.author = k THEN {n} ELSE {}
  BY <1>1 DEF WrittenBefore
<1>3. \A k : ActivationsBefore(g, k, n + 1) =
                ActivationsBefore(l, k, n) \union
                IF ev.kind = "handoff" /\ ev.body.approval.to = k THEN {n} ELSE {}
  BY <1>1 DEF ActivationsBefore
<1>4. \A k : StartsBefore(g, k, n + 1) =
                StartsBefore(l, k, n) \union
                IF ev.kind = "session-start" /\ ev.body.session = k THEN {n} ELSE {}
  BY <1>1 DEF StartsBefore
<1>5. RosterBefore(g, n + 1) =
         IF ev.kind = "roster" THEN ev.body.roster ELSE RosterBefore(l, n)
  <2>1. RostersBefore(g, n + 1) =
           RostersBefore(l, n) \union IF ev.kind = "roster" THEN {n} ELSE {}
    BY <1>1 DEF RostersBefore
  <2>2. RostersBefore(l, n) \subseteq 1..(n - 1) /\ n - 1 \in Nat
    BY <1>1 DEF RostersBefore
  <2>3. RostersBefore(l, n) # {} => Latest(RostersBefore(l, n)) \in 1..(n - 1)
    BY <2>2, LatestIsLast
  <2>4. Latest(RostersBefore(l, n) \union {n}) = n
    BY <1>1, <2>2, LatestGrows
  <2>5. QED
    BY <1>1, <2>1, <2>3, <2>4 DEF RosterBefore
<1>6. OwnersDelegate(g, n + 1) =
         IF ev.kind = "roster" /\ ev.author = Server THEN ev.body.roster.delegate
         ELSE OwnersDelegate(l, n)
  <2>1. OwnersRosters(g, n + 1) =
           OwnersRosters(l, n) \union
           IF ev.kind = "roster" /\ ev.author = Server THEN {n} ELSE {}
    BY <1>1 DEF OwnersRosters
  <2>2. OwnersRosters(l, n) \subseteq 1..(n - 1) /\ n - 1 \in Nat
    BY <1>1 DEF OwnersRosters
  <2>3. OwnersRosters(l, n) # {} => Latest(OwnersRosters(l, n)) \in 1..(n - 1)
    BY <2>2, LatestIsLast
  <2>4. Latest(OwnersRosters(l, n) \union {n}) = n
    BY <1>1, <2>2, LatestGrows
  <2>5. QED
    BY <1>1, <2>1, <2>3, <2>4 DEF OwnersDelegate
<1>7. QED
  BY <1>2, <1>3, <1>4, <1>5, <1>6 DEF g

-----------------------------------------------------------------------------
(* What the state remembers of the log, beside what Sound says. *)

LatestOr0(S) == IF S = {} THEN 0 ELSE Latest(S)

\* A session's head, activation and start are the ones in the log, and no certificate
\* of its is for an epoch to come.
SessionTold(s, l, k) ==
    LET n == Len(l) + 1 IN
    /\ s.heads[k] = LatestOr0(WrittenBefore(l, k, n))
    /\ s.sessions[k].activatedBy = LatestOr0(ActivationsBefore(l, k, n))
    /\ s.sessions[k].status = "absent" => ActivationsBefore(l, k, n) = {}
    /\ s.sessions[k].status # "absent" =>
          s.sessions[k].start = Latest(StartsBefore(l, k, n))
    /\ \A c \in s.sessions[k].certs : c <= s.epoch

\* The roster is the last one in the log, and its delegate the owner's.
RosterTold(s, l) ==
    /\ s.roster = RosterBefore(l, Len(l) + 1)
    /\ s.roster.delegate = OwnersDelegate(l, Len(l) + 1)

Told(s, l) == RosterTold(s, l) /\ \A k \in Keys : SessionTold(s, l, k)

\* Whoever holds a certificate of this epoch was given one after the last loss of
\* authority.  A loss makes this false until the bump that follows it in its frame.
Fresh(s, l) ==
    \A i \in DOMAIN l, k \in Keys :
        Shrinks(l, i) /\ s.epoch \in s.sessions[k].certs =>
            \E c \in (i + 1)..Len(l) : Certifies(l[c], k)

\* What an event does to the records of a session.
LEMMA RecordAfter ==
    ASSUME NEW s \in State, NEW ev \in Event, NEW k \in Keys
    PROVE  /\ Apply(s, ev).sessions[k].start =
                 IF ev.kind = "session-start" /\ ev.body.session = k THEN s.admitted + 1
                 ELSE s.sessions[k].start
           /\ Apply(s, ev).sessions[k].activatedBy =
                 CASE ev.kind = "session-start" /\ ev.body.session = k -> 0
                   [] ev.kind = "handoff" /\ ev.body.approval.to = k -> s.admitted + 1
                   [] OTHER -> s.sessions[k].activatedBy
           /\ Apply(s, ev).sessions[k].certs =
                 CASE ev.kind = "session-start" /\ ev.body.session = k -> {ev.body.cert}
                   [] ev.kind = "renewal" /\ ev.body.session = k ->
                         s.sessions[k].certs \union {ev.body.cert}
                   [] OTHER -> s.sessions[k].certs
<1>1. s.sessions \in [Keys -> Session] /\ Apply(s, ev).sessions = SessionsAfter(s, ev)
      /\ s.admitted + 1 \in Nat
  BY DEF State, Apply
<1>2. CASE ev.kind = "session-start"
  BY <1>1, <1>2, EventBodies DEF SessionsAfter, Started
<1>3. CASE ev.kind = "session-end"
  BY <1>1, <1>3, EventBodies DEF SessionsAfter, Session
<1>4. CASE ev.kind = "handoff"
  <2> DEFINE from == ev.body.approval.from
             to == ev.body.approval.to
             A == [s.sessions EXCEPT ![from].status = "ended"]
             B == [A EXCEPT ![to].status = "active"]
             C == [B EXCEPT ![to].activatedBy = s.admitted + 1]
  <2>1. SessionsAfter(s, ev) = C
    BY <1>4 DEF SessionsAfter
  <2>2. from \in Keys /\ to \in Keys
    BY <1>4, EventBodies
  <2>3. /\ A \in [Keys -> Session]
        /\ A[k].start = s.sessions[k].start
        /\ A[k].certs = s.sessions[k].certs
        /\ A[k].activatedBy = s.sessions[k].activatedBy
    BY <1>1, <2>2 DEF Session, Statuses
  <2>4. /\ B \in [Keys -> Session]
        /\ B[k].start = A[k].start
        /\ B[k].certs = A[k].certs
        /\ B[k].activatedBy = A[k].activatedBy
    <3> HIDE DEF A, from, to
    <3> QED BY <2>2, <2>3 DEF Session, Statuses
  <2>5. /\ C[k].start = B[k].start
        /\ C[k].certs = B[k].certs
        /\ C[k].activatedBy = IF k = to THEN s.admitted + 1 ELSE B[k].activatedBy
    <3> HIDE DEF B, from, to
    <3> QED BY <1>1, <2>2, <2>4 DEF Session
  <2> HIDE DEF A, B, C
  <2>6. QED
    BY <1>1, <1>4, <2>1, <2>3, <2>4, <2>5
<1>5. CASE ev.kind = "renewal"
  <2> DEFINE x == ev.body.session
             A == [s.sessions EXCEPT ![x].certs = @ \cup {ev.body.cert}]
             B == [A EXCEPT ![x].epoch = ev.body.epoch]
  <2>1. SessionsAfter(s, ev) = B
    BY <1>5 DEF SessionsAfter
  <2>2. x \in Keys /\ ev.body.cert \in Nat /\ ev.body.epoch \in Nat
    BY <1>5 DEF Event, ServerEvents
  <2>3. /\ A \in [Keys -> Session]
        /\ A[k].start = s.sessions[k].start
        /\ A[k].certs = IF k = x THEN s.sessions[k].certs \union {ev.body.cert}
                        ELSE s.sessions[k].certs
        /\ A[k].activatedBy = s.sessions[k].activatedBy
    BY <1>1, <2>2 DEF Session
  <2>4. /\ B[k].start = A[k].start
        /\ B[k].certs = A[k].certs
        /\ B[k].activatedBy = A[k].activatedBy
    <3> HIDE DEF A, x
    <3> QED BY <2>2, <2>3 DEF Session
  <2> HIDE DEF A, B
  <2>5. QED
    BY <1>1, <1>5, <2>1, <2>3, <2>4
<1>6. CASE ev.kind \notin {"session-start", "session-end", "handoff", "renewal"}
  BY <1>1, <1>6 DEF SessionsAfter
<1>7. QED
  BY <1>2, <1>3, <1>4, <1>5, <1>6

-----------------------------------------------------------------------------
(* One vetted event keeps the two told of each other. *)

\* The state after a vetted event remembers the roster that the log now ends with.
LEMMA VettedRosterTold ==
    ASSUME NEW s, NEW l, Sound(s, l), Told(s, l), NEW ev \in Event, Vet(s, ev)
    PROVE  RosterTold(Apply(s, ev), Append(l, ev))
<1>1. l \in Seq(Event) /\ RosterTold(s, l)
  BY DEF Sound, Told
<1>2. Len(Append(l, ev)) = Len(l) + 1
  BY <1>1
<1>3. Apply(s, ev).roster = IF ev.kind = "roster" THEN ev.body.roster ELSE s.roster
  BY DEF Apply
<1>4. ev.kind = "roster" /\ ev.author # Server => ev.body.roster.delegate = s.roster.delegate
  BY DEF Vet, Admit, RosterOk
<1>5. QED
  BY <1>1, <1>2, <1>3, <1>4, BeforeGrows DEF RosterTold

\* It remembers of every session what the log now says of it.
LEMMA VettedSessionTold ==
    ASSUME NEW s, NEW l, Sound(s, l), Told(s, l), NEW ev \in Event, Vet(s, ev),
           NEW k \in Keys
    PROVE  SessionTold(Apply(s, ev), Append(l, ev), k)
<1> DEFINE n == Len(l) + 1
           t == Apply(s, ev)
           g == Append(l, ev)
           starts == ev.kind = "session-start" /\ ev.body.session = k
           activates == ev.kind = "handoff" /\ ev.body.approval.to = k
<1>1. /\ s \in State /\ l \in Seq(Event) /\ SessionTableOK(s)
      /\ SessionTold(s, l, k) /\ Len(l) = s.admitted
  BY DEF Sound, Told
<1>2. n \in Nat /\ n = s.admitted + 1 /\ Len(g) + 1 = n + 1 /\ s.epoch \in Nat
  BY <1>1 DEF State
<1>3. /\ WrittenBefore(l, k, n) \subseteq 1..(n - 1)
      /\ ActivationsBefore(l, k, n) \subseteq 1..(n - 1)
      /\ StartsBefore(l, k, n) \subseteq 1..(n - 1)
  BY DEF WrittenBefore, ActivationsBefore, StartsBefore
<1>4. /\ WrittenBefore(g, k, n + 1) =
            WrittenBefore(l, k, n) \union IF ev.author = k THEN {n} ELSE {}
      /\ ActivationsBefore(g, k, n + 1) =
            ActivationsBefore(l, k, n) \union IF activates THEN {n} ELSE {}
      /\ StartsBefore(g, k, n + 1) =
            StartsBefore(l, k, n) \union IF starts THEN {n} ELSE {}
  BY <1>1, BeforeGrows
<1>5. starts => s.sessions[k].status = "absent"
  BY DEF Vet, Check, SessionStartOk
<1>6. activates => s.sessions[k].status # "absent"
  BY <1>1, HandoffMovesRole
<1>7. t.heads[k] = LatestOr0(WrittenBefore(g, k, n + 1))
  <2>1. t.heads[k] = IF ev.author = k THEN n ELSE s.heads[k]
    BY <1>1, <1>2 DEF Apply, State
  <2>2. s.heads[k] = LatestOr0(WrittenBefore(l, k, n))
    BY <1>1 DEF SessionTold
  <2> HIDE DEF n, t, g
  <2>3. LatestOr0(WrittenBefore(l, k, n) \union {n}) = n
    BY <1>2, <1>3, LatestGrows DEF LatestOr0
  <2>4. QED
    BY <1>4, <2>1, <2>2, <2>3
<1>8. t.sessions[k].activatedBy = LatestOr0(ActivationsBefore(g, k, n + 1))
  <2>1. t.sessions[k].activatedBy =
           CASE starts -> 0 [] activates -> n [] OTHER -> s.sessions[k].activatedBy
    BY <1>1, <1>2, RecordAfter
  <2>2. /\ s.sessions[k].activatedBy = LatestOr0(ActivationsBefore(l, k, n))
        /\ s.sessions[k].status = "absent" => ActivationsBefore(l, k, n) = {}
    BY <1>1 DEF SessionTold
  <2> HIDE DEF n, t, g, starts, activates
  <2>3. starts => ~activates
    BY <1>5, <1>6
  <2>4. CASE starts
    BY <1>4, <1>5, <2>1, <2>2, <2>3, <2>4 DEF LatestOr0
  <2>5. CASE activates
    <3>1. LatestOr0(ActivationsBefore(l, k, n) \union {n}) = n
      BY <1>2, <1>3, LatestGrows DEF LatestOr0
    <3>2. QED
      BY <1>4, <2>1, <2>3, <2>5, <3>1
  <2>6. CASE ~starts /\ ~activates
    BY <1>4, <2>1, <2>2, <2>6
  <2>7. QED
    BY <2>4, <2>5, <2>6
<1>9. t.sessions[k].status = "absent" => ActivationsBefore(g, k, n + 1) = {}
  <2>1. t.sessions[k].status = "absent" => s.sessions[k].status = "absent"
    BY <1>1, VettedAges
  <2>2. s.sessions[k].status = "absent" => ActivationsBefore(l, k, n) = {}
    BY <1>1 DEF SessionTold
  <2>3. QED
    BY <1>4, <1>6, <2>1, <2>2
<1>10. ASSUME t.sessions[k].status # "absent"
       PROVE  t.sessions[k].start = Latest(StartsBefore(g, k, n + 1))
  <2>1. t.sessions[k].start = IF starts THEN n ELSE s.sessions[k].start
    BY <1>1, <1>2, RecordAfter
  <2>2. CASE starts
    BY <1>2, <1>3, <1>4, <2>1, <2>2, LatestGrows
  <2>3. CASE ~starts
    <3>1. s.sessions[k].status # "absent"
      <4>1. CASE ev.kind = "handoff"
        <5>1. /\ s.sessions[ev.body.approval.from].status # "absent"
              /\ s.sessions[ev.body.approval.to].status # "absent"
              /\ ev.body.approval.from # ev.body.approval.to
          BY <1>1, <4>1, HandoffMovesRole DEF Vet, Check, HandoffOk
        <5>2. k \notin {ev.body.approval.from, ev.body.approval.to} =>
                 t.sessions[k].status = s.sessions[k].status
          BY <1>1, <4>1, <5>1, StatusAfter
        <5>3. QED
          BY <1>10, <5>1, <5>2
      <4>2. CASE ev.kind # "handoff"
        BY <1>1, <1>10, <2>3, <4>2, StatusAfter DEF Vet, Check, Live
      <4>3. QED
        BY <4>1, <4>2
    <3>2. s.sessions[k].start = Latest(StartsBefore(l, k, n))
      BY <1>1, <3>1 DEF SessionTold
    <3>3. QED
      BY <1>4, <2>1, <2>3, <3>2
  <2>4. QED
    BY <2>2, <2>3
<1>11. ASSUME NEW c \in t.sessions[k].certs
       PROVE  c <= t.epoch
  <2>1. t.epoch = EpochFor(s, ev.kind) /\ t.epoch \in Nat /\ s.epoch <= t.epoch
    BY <1>2 DEF Apply, EpochFor
  <2>2. \A b \in s.sessions[k].certs : b <= s.epoch /\ b \in Nat
    BY <1>1 DEF SessionTold, State, Session
  <2>3. ev.kind \in {"session-start", "renewal"} => ev.body.cert = t.epoch
    BY <2>1 DEF Vet, Check, SessionStartOk, RenewalOk
  <2>4. t.sessions[k].certs =
           CASE starts -> {ev.body.cert}
             [] ev.kind = "renewal" /\ ev.body.session = k ->
                   s.sessions[k].certs \union {ev.body.cert}
             [] OTHER -> s.sessions[k].certs
    BY <1>1, RecordAfter
  <2> HIDE DEF t
  <2>5. c \in s.sessions[k].certs \/ c = t.epoch
    BY <1>11, <2>3, <2>4
  <2>6. QED
    BY <1>2, <2>1, <2>2, <2>5
<1> HIDE DEF n, t, g
<1>12. QED
  BY <1>2, <1>7, <1>8, <1>9, <1>10, <1>11 DEF SessionTold, t, g

\* So it remembers the log it now belongs to.
LEMMA VettedTold ==
    ASSUME NEW s, NEW l, Sound(s, l), Told(s, l), NEW ev \in Event, Vet(s, ev)
    PROVE  Told(Apply(s, ev), Append(l, ev))
BY VettedRosterTold, VettedSessionTold DEF Told

-----------------------------------------------------------------------------
(* The new event is lawful. *)

\* A session writes on from its own last event, or from the hand-off that activated it,
\* and a hand-off resumes from the last event of whom it retires.
LEMMA VettedChains ==
    ASSUME NEW s, NEW l, Sound(s, l), Told(s, l), NEW ev \in Event, Vet(s, ev),
           NEW n, n = Len(l) + 1
    PROVE  /\ ev.author \in Keys => ev.prev = ChainsFrom(l, ev.author, n)
           /\ ev.kind = "handoff" =>
                 ev.body.resume = ResumesFrom(l, ev.body.approval.from, n)
<1>1. s \in State /\ l \in Seq(Event) /\ \A k \in Keys : SessionTold(s, l, k)
  BY DEF Sound, Told
<1>2. ASSUME NEW k \in Keys
      PROVE  /\ s.heads[k] = LatestOr0(WrittenBefore(l, k, n))
             /\ s.heads[k] = 0 <=> WrittenBefore(l, k, n) = {}
  <2>1. s.heads[k] = LatestOr0(WrittenBefore(l, k, n))
    BY <1>1 DEF SessionTold
  <2>2. n - 1 \in Nat /\ WrittenBefore(l, k, n) \subseteq 1..(n - 1)
    BY <1>1 DEF WrittenBefore
  <2>3. WrittenBefore(l, k, n) # {} => Latest(WrittenBefore(l, k, n)) \in 1..(n - 1)
    BY <2>2, LatestIsLast
  <2>4. QED
    BY <2>1, <2>2, <2>3 DEF LatestOr0
<1>3. ASSUME ev.author \in Keys
      PROVE  ev.prev = ChainsFrom(l, ev.author, n)
  <2> DEFINE k == ev.author
  <2>1. k # Server /\ k \notin Devices
    BY <1>3, PrincipalsAssumption
  <2>2. /\ s.heads[k] # 0 => ev.prev = s.heads[k]
        /\ s.heads[k] = 0 => ev.prev = s.sessions[k].activatedBy
    BY <1>3, <2>1 DEF Vet, Admit, WriterChain, FirstLink
  <2>3. s.sessions[k].activatedBy = LatestOr0(ActivationsBefore(l, k, n))
    BY <1>1, <1>3 DEF SessionTold
  <2>4. /\ s.heads[k] = LatestOr0(WrittenBefore(l, k, n))
        /\ s.heads[k] = 0 <=> WrittenBefore(l, k, n) = {}
    BY <1>2, <1>3
  <2> HIDE DEF k
  <2>5. ev.prev = ChainsFrom(l, k, n)
    BY <2>2, <2>3, <2>4 DEF ChainsFrom, LatestOr0
  <2>6. QED
    BY <2>5 DEF k
<1>4. ASSUME ev.kind = "handoff"
      PROVE  ev.body.resume = ResumesFrom(l, ev.body.approval.from, n)
  <2> DEFINE k == ev.body.approval.from
  <2>1. /\ k \in Keys
        /\ s.sessions[k].status # "absent"
        /\ ev.body.resume = LastHead(s, k)
    BY <1>4, EventBodies DEF Vet, Check, HandoffOk
  <2>2. s.sessions[k].start = Latest(StartsBefore(l, k, n))
    BY <1>1, <2>1 DEF SessionTold
  <2>3. /\ s.heads[k] = LatestOr0(WrittenBefore(l, k, n))
        /\ s.heads[k] = 0 <=> WrittenBefore(l, k, n) = {}
    BY <1>2, <2>1
  <2> HIDE DEF k
  <2>4. ev.body.resume = ResumesFrom(l, k, n)
    BY <2>1, <2>2, <2>3 DEF ResumesFrom, LastHead, LatestOr0
  <2>5. QED
    BY <2>4 DEF k
<1>5. QED
  BY <1>3, <1>4

\* A session that signs or approves does so under a certificate of this epoch.
LEMMA SignersCurrent ==
    ASSUME NEW s \in State, NEW ev \in Event, Vet(s, ev), NEW k \in Keys, k \in Signers(ev)
    PROVE  s.epoch \in s.sessions[k].certs /\ ev.kind # "epoch"
<1>1. k # Server /\ k \notin Devices
  BY PrincipalsAssumption
<1>2. CASE k = ev.author
  <2>1. ev.kind # "epoch"
    BY <1>1, <1>2, ServerKindAuthor DEF ServerKinds
  <2>2. QED
    BY <1>1, <1>2, <2>1 DEF Vet, Resolves, EpochFor
<1>3. CASE ev.kind = "handoff" /\ k = ev.body.approver
  <2>1. ApproverOk(s, ev.body.approval.member, k, ev.body.cert, s.epoch)
    BY <1>3 DEF Vet, Check, HandoffOk, EpochFor
  <2>2. QED
    BY <1>1, <1>3, <2>1 DEF ApproverOk, Resolves
<1>4. QED
  BY <1>2, <1>3 DEF Signers

\* Appending a vetted event to a lawful log keeps it lawful.
LEMMA VettedLawful ==
    ASSUME NEW s, NEW l, Sound(s, l), Told(s, l), Lawful(l), NEW ev \in Event, Vet(s, ev),
           Fresh(s, l) \/ ev.kind = "epoch"
    PROVE  Lawful(Append(l, ev))
<1> DEFINE n == Len(l) + 1
           g == Append(l, ev)
<1>1. s \in State /\ l \in Seq(Event)
  BY DEF Sound
<1>2. /\ DOMAIN g = DOMAIN l \cup {n}
      /\ \A i \in DOMAIN l : g[i] = l[i] /\ i < n /\ i \in 1..n
      /\ g[n] = ev
      /\ n \in 1..n /\ n - 1 = Len(l) /\ DOMAIN l = 1..Len(l) /\ Len(l) \in Nat
  BY <1>1, AppendLog
<1>3. \A j \in 1..n :
         /\ \A k : WrittenBefore(g, k, j) = WrittenBefore(l, k, j)
         /\ \A k : ActivationsBefore(g, k, j) = ActivationsBefore(l, k, j)
         /\ \A k : StartsBefore(g, k, j) = StartsBefore(l, k, j)
         /\ RosterBefore(g, j) = RosterBefore(l, j)
         /\ OwnersDelegate(g, j) = OwnersDelegate(l, j)
  BY <1>1, BeforeStays
<1>4. /\ ev.author \in Keys => ev.prev = ChainsFrom(l, ev.author, n)
      /\ ev.kind = "handoff" =>
            ev.body.resume = ResumesFrom(l, ev.body.approval.from, n)
  BY VettedChains
<1> HIDE DEF g, n
<1>5. RoleHistoryIsOneChain(g)
  <2>1. \A j \in 1..n : \A k : /\ ChainsFrom(g, k, j) = ChainsFrom(l, k, j)
                               /\ ResumesFrom(g, k, j) = ResumesFrom(l, k, j)
    BY <1>3 DEF ChainsFrom, ResumesFrom
  <2>2. RoleHistoryIsOneChain(l)
    BY DEF Lawful
  <2>3. ASSUME NEW j \in DOMAIN g
        PROVE  /\ g[j].author \in Keys => g[j].prev = ChainsFrom(g, g[j].author, j)
               /\ g[j].kind = "handoff" =>
                     g[j].body.resume = ResumesFrom(g, g[j].body.approval.from, j)
    <3>1. CASE j \in DOMAIN l
      BY <1>2, <2>1, <2>2, <3>1 DEF RoleHistoryIsOneChain
    <3>2. CASE j = n
      BY <1>2, <1>4, <2>1, <3>2
    <3>3. QED
      BY <1>2, <3>1, <3>2
  <2>4. QED
    BY <2>3 DEF RoleHistoryIsOneChain
<1>6. StaleCertificateNeverSigns(g)
  <2>1. \A i \in DOMAIN l : Shrinks(g, i) <=> Shrinks(l, i)
    BY <1>2, <1>3 DEF Shrinks
  <2>2. StaleCertificateNeverSigns(l)
    BY DEF Lawful
  <2>3. ASSUME NEW i \in DOMAIN g, NEW j \in DOMAIN g, i < j, Shrinks(g, i),
               NEW k \in Keys, k \in Signers(g[j])
        PROVE  \E c \in (i + 1)..(j - 1) : Certifies(g[c], k)
    <3>1. i \in DOMAIN l /\ Shrinks(l, i) /\ i \in Nat
      BY <1>2, <2>1, <2>3
    <3>2. CASE j \in DOMAIN l
      <4>1. k \in Keys \cap Signers(l[j])
        BY <1>2, <2>3, <3>2
      <4>2. PICK c \in (i + 1)..(j - 1) : Certifies(l[c], k)
        BY <2>2, <2>3, <3>1, <3>2, <4>1 DEF StaleCertificateNeverSigns
      <4>3. c \in DOMAIN l
        BY <1>2, <3>1, <3>2, <4>2
      <4>4. QED
        BY <1>2, <4>2, <4>3
    <3>3. CASE j = n
      <4>1. s.epoch \in s.sessions[k].certs /\ Fresh(s, l)
        BY <1>1, <1>2, <2>3, <3>3, SignersCurrent
      <4>2. PICK c \in (i + 1)..Len(l) : Certifies(l[c], k)
        BY <3>1, <4>1 DEF Fresh
      <4>3. c \in DOMAIN l /\ c \in (i + 1)..(j - 1)
        BY <1>2, <3>1, <3>3, <4>2
      <4>4. QED
        BY <1>2, <4>2, <4>3
    <3>4. QED
      BY <1>2, <3>2, <3>3
  <2>4. QED
    BY <2>3 DEF StaleCertificateNeverSigns
<1>7. DelegateIsTheOwners(g)
  <2>1. DelegateIsTheOwners(l) /\ s.roster.delegate = OwnersDelegate(l, n)
    BY DEF Lawful, Told, RosterTold, n
  <2>2. ASSUME NEW j \in DOMAIN g, g[j].kind = "handoff", g[j].body.approver \in Keys
        PROVE  g[j].body.approval.member # OwnersDelegate(g, j)
    <3>1. CASE j \in DOMAIN l
      BY <1>2, <1>3, <2>1, <2>2, <3>1 DEF DelegateIsTheOwners
    <3>2. CASE j = n
      <4>1. ev.kind = "handoff" /\ ev.body.approver \in Keys
        BY <1>2, <2>2, <3>2
      <4>2. ev.body.approver \notin Devices
        BY <4>1, PrincipalsAssumption
      <4>3. s.roster.delegate # ev.body.approval.member
        BY <4>1, <4>2 DEF Vet, Check, HandoffOk, ApproverOk
      <4>4. QED
        BY <1>2, <1>3, <2>1, <3>2, <4>3
    <3>3. QED
      BY <1>2, <3>1, <3>2
  <2>3. QED
    BY <2>2 DEF DelegateIsTheOwners
<1>8. QED
  BY <1>5, <1>6, <1>7 DEF Lawful, g

\* An event that takes no authority away leaves the certificates of the epoch fresh, and
\* after a bump there are none of the epoch.
LEMMA VettedFresh ==
    ASSUME NEW s, NEW l, Sound(s, l), Told(s, l), NEW ev \in Event, Vet(s, ev),
           ~TakesAuthority(s.roster, ev),
           Fresh(s, l) \/ ev.kind = "epoch"
    PROVE  Fresh(Apply(s, ev), Append(l, ev))
<1> DEFINE n == Len(l) + 1
           g == Append(l, ev)
           t == Apply(s, ev)
<1>1. s \in State /\ l \in Seq(Event) /\ s.epoch \in Nat
  BY DEF Sound, State
<1>2. /\ DOMAIN g = DOMAIN l \cup {n}
      /\ \A i \in DOMAIN l : g[i] = l[i] /\ i < n /\ i \in 1..n
      /\ g[n] = ev
      /\ n \in 1..n /\ Len(g) = n /\ DOMAIN l = 1..Len(l) /\ Len(l) \in Nat
  BY <1>1, AppendLog
<1>3. \A j \in 1..n : RosterBefore(g, j) = RosterBefore(l, j)
  BY <1>1, BeforeStays
<1>4. s.roster = RosterBefore(l, n)
  BY DEF Told, RosterTold
<1>5. t.epoch = EpochFor(s, ev.kind)
  BY DEF Apply
<1> HIDE DEF g
<1>6. ASSUME NEW i \in DOMAIN g, NEW k \in Keys, Shrinks(g, i),
             t.epoch \in t.sessions[k].certs
      PROVE  \E c \in (i + 1)..Len(g) : Certifies(g[c], k)
  <2>1. i # n
    BY <1>2, <1>3, <1>4, <1>6 DEF Shrinks
  <2>2. i \in DOMAIN l /\ Shrinks(l, i) /\ i \in Nat /\ i < n
    BY <1>2, <1>3, <1>6, <2>1 DEF Shrinks
  <2>3. t.sessions[k].certs =
           CASE ev.kind = "session-start" /\ ev.body.session = k -> {ev.body.cert}
             [] ev.kind = "renewal" /\ ev.body.session = k ->
                   s.sessions[k].certs \union {ev.body.cert}
             [] OTHER -> s.sessions[k].certs
    BY <1>1, RecordAfter
  <2> HIDE DEF t
  <2>4. CASE Certifies(ev, k)
    <3>1. n \in (i + 1)..Len(g)
      BY <1>2, <2>2
    <3>2. QED
      BY <1>2, <2>4, <3>1
  <2>5. CASE ~Certifies(ev, k)
    <3>1. t.sessions[k].certs = s.sessions[k].certs
      BY <2>3, <2>5 DEF Certifies
    <3>2. \A c \in s.sessions[k].certs : c <= s.epoch
      BY DEF Told, SessionTold
    <3>3. ev.kind # "epoch"
      BY <1>1, <1>5, <1>6, <3>1, <3>2 DEF EpochFor
    <3>4. s.epoch \in s.sessions[k].certs
      BY <1>5, <1>6, <3>1, <3>3 DEF EpochFor
    <3>5. PICK c \in (i + 1)..Len(l) : Certifies(l[c], k)
      BY <2>2, <3>3, <3>4 DEF Fresh
    <3>6. c \in DOMAIN l /\ c \in (i + 1)..Len(g)
      BY <1>2, <2>2, <3>5
    <3>7. QED
      BY <1>2, <3>5, <3>6
  <2>6. QED
    BY <2>4, <2>5
<1> HIDE DEF t
<1>7. QED
  BY <1>6 DEF Fresh, g, t

-----------------------------------------------------------------------------
(* The history is lawful. *)

HistoryInv == IInv /\ Told(st, log) /\ Fresh(st, log) /\ Lawful(log)

\* An empty log is lawful, and genesis remembers nothing else.
LEMMA InitHistory == Init => Told(st, log) /\ Fresh(st, log) /\ Lawful(log)
<1> SUFFICES ASSUME Init PROVE Told(st, log) /\ Fresh(st, log) /\ Lawful(log)
  OBVIOUS
<1>1. st = GenesisState(Genesis) /\ log = <<>>
  BY DEF Init
<1>2. Len(log) + 1 = 1 /\ DOMAIN log = {} /\ 1..(1 - 1) = {}
  BY <1>1
<1>3. /\ st.roster = Genesis /\ st.epoch = 0
      /\ \A k \in Keys : st.heads[k] = 0 /\ st.sessions[k] = NoSession
  BY <1>1 DEF GenesisState
<1>4. \A k : /\ WrittenBefore(log, k, 1) = {} /\ ActivationsBefore(log, k, 1) = {}
             /\ StartsBefore(log, k, 1) = {}
  BY <1>2 DEF WrittenBefore, ActivationsBefore, StartsBefore
<1>5. RosterBefore(log, 1) = Genesis /\ OwnersDelegate(log, 1) = Genesis.delegate
  BY <1>2 DEF RosterBefore, RostersBefore, OwnersDelegate, OwnersRosters
<1>6. Told(st, log)
  BY <1>2, <1>3, <1>4, <1>5 DEF Told, RosterTold, SessionTold, LatestOr0, NoSession
<1>7. QED
  BY <1>2, <1>6 DEF Fresh, Lawful, RoleHistoryIsOneChain, StaleCertificateNeverSigns,
                    DelegateIsTheOwners

\* Admitting keeps the history lawful: a loss of authority goes out with its bump.
LEMMA AdmitsKeepsHistory ==
    ASSUME Sound(st, log), Told(st, log), Fresh(st, log), Lawful(log), Admits
    PROVE  Told(st', log') /\ Fresh(st', log') /\ Lawful(log')
<1>1. CASE UNCHANGED <<st, log, ends>>
  BY <1>1
<1>2. ASSUME NEW a \in Event, Vet(st, a), ~TakesAuthority(st.roster, a), Commit1(a)
      PROVE  Told(st', log') /\ Fresh(st', log') /\ Lawful(log')
  BY <1>2, VettedTold, VettedFresh, VettedLawful DEF Commit1
<1>3. ASSUME NEW a \in Event, Vet(st, a), Vet(Apply(st, a), Bump), Commit2(a, Bump)
      PROVE  Told(st', log') /\ Fresh(st', log') /\ Lawful(log')
  <2> DEFINE s == Apply(st, a)
             l == Append(log, a)
  <2>1. st.epoch + 1 \in Nat /\ log \in Seq(Event)
    BY DEF Sound, State
  <2>2. /\ Bump \in Event /\ Bump.kind = "epoch"
        /\ ~TakesAuthority(s.roster, Bump)
    BY <2>1, ServerEventTypes DEF Bump, EpochEvent, ServerEvent, TakesAuthority
  <2>3. Sound(s, l) /\ Told(s, l) /\ Lawful(l)
    BY <1>3, VettedKeepsSound, VettedTold, VettedLawful
  <2>4. Append(l, Bump) = log \o <<a, Bump>>
    BY <2>1, <2>2
  <2> HIDE DEF s, l
  <2>5. Vet(s, Bump)
    BY <1>3 DEF s
  <2>6. /\ Told(Apply(s, Bump), Append(l, Bump))
        /\ Fresh(Apply(s, Bump), Append(l, Bump))
        /\ Lawful(Append(l, Bump))
    BY <2>2, <2>3, <2>5, VettedTold, VettedFresh, VettedLawful
  <2>7. QED
    BY <1>3, <2>4, <2>6 DEF Commit2, s
<1>4. QED
  BY <1>1, <1>2, <1>3 DEF Admits

\* The history is lawful in every reachable state.
THEOREM HistoryStaysLawful == Spec => []HistoryIsLawful
<1>1. Init => HistoryInv
  BY InitIInv, InitHistory DEF HistoryInv
<1>2. HistoryInv /\ [Next]_vars => HistoryInv'
  <2>1. ASSUME HistoryInv, Next
        PROVE  HistoryInv'
    <3>1. IInv' /\ Admits
      BY <2>1, NextIInv, StepVets DEF HistoryInv, IInv
    <3>2. Told(st', log') /\ Fresh(st', log') /\ Lawful(log')
      BY <2>1, <3>1, AdmitsKeepsHistory DEF HistoryInv, IInv
    <3>3. QED
      BY <3>1, <3>2 DEF HistoryInv
  <2>2. ASSUME HistoryInv, UNCHANGED vars
        PROVE  HistoryInv'
    <3>1. IInv'
      BY <2>2, NextIInv DEF HistoryInv
    <3>2. QED
      BY <2>2, <3>1 DEF HistoryInv, vars
  <2>3. QED
    BY <2>1, <2>2
<1>3. HistoryInv => HistoryIsLawful
  BY DEF HistoryInv, HistoryIsLawful
<1>4. QED
  BY <1>1, <1>2, <1>3, PTL DEF Spec

-----------------------------------------------------------------------------
(* The log replays. *)

\* f is the states that a replay of the log goes through, from genesis to the live one.
Trace(f) ==
    /\ f[0] = GenesisState(Genesis)
    /\ f[Len(log)] = st
    /\ \A i \in 1..Len(log) : Accepts(f[i - 1], i) /\ f[i] = Apply(f[i - 1], log[i])

ReplayInv == IInv /\ \E f : Trace(f)

\* A frame more is a replay of one step or two more: no index of an earlier frame loses
\* its bump.
LEMMA AdmitsKeepsTrace ==
    ASSUME TypeOK, Admits, NEW f, Trace(f)
    PROVE  (\E h : Trace(h))'
<1>1. /\ log \in Seq(Event) /\ Len(log) \in Nat /\ st.admitted = Len(log)
      /\ ends \subseteq 1..Len(log)
  BY DEF TypeOK
<1>0. PICK m : m = Len(log)
  OBVIOUS
<1>2. CASE UNCHANGED <<st, log, ends>>
  BY <1>2 DEF Trace, Accepts, Bumped
<1>3. ASSUME NEW a \in Event, Vet(st, a), ~TakesAuthority(st.roster, a), Commit1(a)
      PROVE  (\E h : Trace(h))'
  <2>1. /\ log' = Append(log, a) /\ ends' = ends \union {m + 1} /\ st' = Apply(st, a)
        /\ Len(log') = m + 1 /\ log'[m + 1] = a
        /\ \A i \in 1..m : log'[i] = log[i]
    BY <1>0, <1>1, <1>3 DEF Commit1
  <2>2. PICK h : h = [i \in 0..(m + 1) |-> IF i <= m THEN f[i] ELSE Apply(st, a)]
    OBVIOUS
  <2>3. /\ h[m + 1] = Apply(st, a)
        /\ \A i \in 0..m : h[i] = f[i]
    BY <1>0, <1>1, <2>2
  <2>4. ASSUME NEW i \in 1..m
        PROVE  /\ Vet(h[i - 1], log'[i])
               /\ TakesAuthority(h[i - 1].roster, log'[i]) => Bumped(i)'
               /\ h[i] = Apply(h[i - 1], log'[i])
    <3>1. i \in 0..m /\ i - 1 \in 0..m
      BY <1>0, <1>1
    <3>2. Accepts(f[i - 1], i) /\ f[i] = Apply(f[i - 1], log[i])
      BY <1>0 DEF Trace
    <3>3. Bumped(i) => Bumped(i)'
      BY <1>0, <1>1, <2>1 DEF Bumped
    <3>4. QED
      BY <2>1, <2>3, <3>1, <3>2, <3>3 DEF Accepts
  <2>5. f[m] = st /\ f[0] = GenesisState(Genesis) /\ m \in Nat
    BY <1>0, <1>1 DEF Trace
  <2>6. ASSUME NEW i \in 1..(m + 1)
        PROVE  /\ Vet(h[i - 1], log'[i])
               /\ TakesAuthority(h[i - 1].roster, log'[i]) => Bumped(i)'
               /\ h[i] = Apply(h[i - 1], log'[i])
    <3>1. CASE i \in 1..m
      BY <2>4, <3>1
    <3>2. CASE i = m + 1
      <4>1. h[i - 1] = st
        BY <2>3, <2>5, <3>2
      <4>2. QED
        BY <1>3, <2>1, <2>3, <3>2, <4>1
    <3>3. QED
      BY <2>5, <3>1, <3>2
  <2>7. Trace(h)'
    BY <1>0, <2>1, <2>3, <2>5, <2>6 DEF Trace, Accepts
  <2>8. QED
    BY <2>7
<1>4. ASSUME NEW a \in Event, Vet(st, a), Vet(Apply(st, a), Bump), Commit2(a, Bump)
      PROVE  (\E h : Trace(h))'
  <2>0. PICK b : b = Bump
    OBVIOUS
  <2>1. /\ log' = log \o <<a, b>> /\ ends' = ends \union {m + 2}
        /\ st' = Apply(Apply(st, a), b)
    BY <1>0, <1>1, <1>4, <2>0 DEF Commit2
  <2>2. Len(log') = m + 2 /\ log'[m + 1] = a /\ log'[m + 2] = b
        /\ \A i \in 1..m : log'[i] = log[i]
    BY <1>0, <1>1, <2>1
  <2>3. b.kind = "epoch" /\ b.author = Server
    BY <2>0 DEF Bump, EpochEvent, ServerEvent
  <2>4. PICK h : h = [i \in 0..(m + 2) |-> IF i <= m THEN f[i]
                                           ELSE IF i = m + 1 THEN Apply(st, a)
                                           ELSE Apply(Apply(st, a), b)]
    OBVIOUS
  <2>5. /\ h[m + 1] = Apply(st, a) /\ h[m + 2] = Apply(h[m + 1], b)
        /\ \A i \in 0..m : h[i] = f[i]
    BY <1>0, <1>1, <2>4
  <2>6. f[m] = st /\ f[0] = GenesisState(Genesis) /\ m \in Nat
    BY <1>0, <1>1 DEF Trace
  <2>7. ASSUME NEW i \in 1..m
        PROVE  /\ Vet(h[i - 1], log'[i])
               /\ TakesAuthority(h[i - 1].roster, log'[i]) => Bumped(i)'
               /\ h[i] = Apply(h[i - 1], log'[i])
    <3>1. i \in 0..m /\ i - 1 \in 0..m
      BY <2>6
    <3>2. Accepts(f[i - 1], i) /\ f[i] = Apply(f[i - 1], log[i])
      BY <1>0 DEF Trace
    <3>3. Bumped(i) => Bumped(i)'
      BY <1>0, <1>1, <2>1, <2>2 DEF Bumped
    <3>4. QED
      BY <2>2, <2>5, <3>1, <3>2, <3>3 DEF Accepts
  <2>8. Bumped(m + 1)'
    BY <1>0, <1>1, <2>1, <2>2, <2>3, <2>6 DEF Bumped
  <2>9. ~TakesAuthority(h[m + 1].roster, b)
    BY <2>3 DEF TakesAuthority
  <2>10. ASSUME NEW i \in 1..(m + 2)
         PROVE  /\ Vet(h[i - 1], log'[i])
                /\ TakesAuthority(h[i - 1].roster, log'[i]) => Bumped(i)'
                /\ h[i] = Apply(h[i - 1], log'[i])
    <3>1. CASE i \in 1..m
      BY <2>7, <3>1
    <3>2. CASE i = m + 1
      <4>1. h[i - 1] = st
        BY <2>5, <2>6, <3>2
      <4>2. QED
        BY <1>4, <2>2, <2>5, <2>8, <3>2, <4>1
    <3>3. CASE i = m + 2
      <4>1. h[i - 1] = h[m + 1]
        BY <2>6, <3>3
      <4>2. QED
        BY <1>4, <2>0, <2>2, <2>5, <2>9, <3>3, <4>1
    <3>4. QED
      BY <2>6, <3>1, <3>2, <3>3
  <2>11. Trace(h)'
    BY <1>0, <2>1, <2>2, <2>5, <2>6, <2>10 DEF Trace, Accepts
  <2>12. QED
    BY <2>11
<1>5. QED
  BY <1>2, <1>3, <1>4 DEF Admits

\* The replay of a log that can be traced ends in the last state of the trace: what it
\* has rebuilt after i events is state i, or there would be a first i at which it is not.
LEMMA TraceIsReplay ==
    ASSUME log \in Seq(Event), NEW f, Trace(f)
    PROVE  LiveIsReplayed
<1> DEFINE m == Len(log)
           genesis == [ok |-> TRUE, st |-> GenesisState(Genesis)]
           Body(r, i) == IF i = 0 THEN genesis ELSE ReplayStep(r[i - 1], i)
           g == [i \in 0..m |-> [ok |-> TRUE, st |-> f[i]]]
           r == CHOOSE r : r = [i \in 0..m |-> Body(r, i)]
<1>1. m \in Nat
  OBVIOUS
<1>2. ASSUME NEW i \in 1..m
      PROVE  ReplayStep([ok |-> TRUE, st |-> f[i - 1]], i) = [ok |-> TRUE, st |-> f[i]]
  BY DEF Trace, ReplayStep
<1>3. ASSUME NEW i \in 0..m
      PROVE  g[i] = Body(g, i)
  <2>1. CASE i = 0
    BY <1>1, <2>1 DEF Trace
  <2>2. CASE i \in 1..m
    <3>1. i - 1 \in 0..m /\ i # 0
      BY <1>1, <2>2
    <3>2. g[i - 1] = [ok |-> TRUE, st |-> f[i - 1]]
      BY <3>1
    <3>3. QED
      BY <1>2, <2>2, <3>1, <3>2
  <2>3. QED
    BY <1>1, <2>1, <2>2
<1>4. g = [i \in 0..m |-> Body(g, i)]
  <2> HIDE DEF Body, m
  <2> QED
    BY <1>3
<1>5. r = [i \in 0..m |-> Body(r, i)]
  <2> HIDE DEF g, Body
  <2> QED
    BY <1>4
<1>6. Replayed = r[m]
  BY DEF Replayed
<1> HIDE DEF r
<1>7. ASSUME NEW i \in 1..m, r[i - 1] = g[i - 1]
      PROVE  r[i] = g[i]
  <2>1. i \in 0..m
    BY <1>1
  <2>2. r[i] = Body(r, i)
    BY <1>5, <2>1
  <2>3. Body(r, i) = Body(g, i)
    BY <1>7
  <2>4. g[i] = Body(g, i)
    BY <1>3, <2>1
  <2> HIDE DEF g, Body, m
  <2>5. QED
    BY <2>2, <2>3, <2>4
<1>8. r[0] = g[0]
  <2>1. 0 \in 0..m
    BY <1>1
  <2>2. r[0] = Body(r, 0) /\ g[0] = Body(g, 0)
    <3> HIDE DEF Body, g, m
    <3> QED
      BY <1>3, <1>5, <2>1
  <2>3. QED
    BY <2>2
<1>9. g[m] = [ok |-> TRUE, st |-> st]
  <2>1. m \in 0..m /\ f[m] = st
    BY <1>1 DEF Trace
  <2> HIDE DEF m
  <2>2. QED
    BY <2>1
<1> HIDE DEF g
<1>10. r[m] = g[m]
  <2> DEFINE T == {i \in 0..m : r[i] # g[i]}
  <2> SUFFICES ASSUME T # {}
               PROVE  FALSE
    BY <1>1
  <2>1. T \subseteq Nat
    BY <1>1
  <2>2. PICK x \in T : \A y \in T : x <= y
    BY <2>1, LeastNatural
  <2>3. x \in 1..m /\ x - 1 \in 0..m
    BY <1>1, <1>8, <2>2
  <2>4. x - 1 \notin T
    BY <2>2, <2>3
  <2>5. QED
    BY <1>7, <2>2, <2>3, <2>4
<1>11. QED
  BY <1>6, <1>9, <1>10 DEF LiveIsReplayed

\* What the server admitted, replay accepts, and it rebuilds the live state.
THEOREM LogReplays == Spec => []LiveIsReplayed
<1>1. Init => ReplayInv
  <2>1. ASSUME Init
        PROVE  \E f : Trace(f)
    <3>1. log = <<>> /\ Len(log) = 0 /\ st = GenesisState(Genesis)
      BY <2>1 DEF Init
    <3>2. PICK f : f = [i \in 0..0 |-> GenesisState(Genesis)]
      OBVIOUS
    <3>3. Trace(f)
      BY <3>1, <3>2 DEF Trace
    <3>4. QED
      BY <3>3
  <2>2. QED
    BY <2>1, InitIInv DEF ReplayInv
<1>2. ReplayInv /\ [Next]_vars => ReplayInv'
  <2>1. ASSUME ReplayInv, Next
        PROVE  ReplayInv'
    <3>1. IInv' /\ Admits
      BY <2>1, NextIInv, StepVets DEF ReplayInv, IInv
    <3>2. (\E h : Trace(h))'
      BY <2>1, <3>1, AdmitsKeepsTrace DEF ReplayInv, IInv
    <3>3. QED
      BY <3>1, <3>2 DEF ReplayInv
  <2>2. ASSUME ReplayInv, UNCHANGED vars
        PROVE  ReplayInv'
    <3>1. IInv'
      BY <2>2, NextIInv DEF ReplayInv
    <3>2. QED
      BY <2>2, <3>1 DEF ReplayInv, vars, Trace, Accepts, Bumped
  <2>3. QED
    BY <2>1, <2>2
<1>3. ReplayInv => LiveIsReplayed
  BY TraceIsReplay DEF ReplayInv, IInv, TypeOK
<1>4. QED
  BY <1>1, <1>2, <1>3, PTL DEF Spec
===============================================================================
