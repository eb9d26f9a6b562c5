----------------------------- MODULE FlockState -----------------------------
(***************************************************************************)
(* What a flock server, a recovering server and every follower derive from *)
(* the admitted log: `State` of flock-server/state.rs with the session     *)
(* table of sessions.rs, the epoch of chain.rs and the part of the board   *)
(* that decides who may sign (roster, writer heads).                       *)
(*                                                                         *)
(* The state is a value, and one event is vetted against it (`Vet`) and    *)
(* taken into it (`Apply`), exactly as the code does both live and on      *)
(* replay.  Abstractions:                                                  *)
(*  - an admitted event is named by its admission index (a bijection with  *)
(*    content ids on the admitted log); index 0 is "none", or the genesis  *)
(*    where the roster is concerned;                                       *)
(*  - a session certificate is named by the one epoch it is bounded to;    *)
(*  - every session-signed kind other than a roster is "work": the         *)
(*    admission table that tells those kinds apart is not modelled here;   *)
(*  - the server's own writer chain is free in the code (writer_chain      *)
(*    returns at once for it) and its `prev` is left out.                  *)
(***************************************************************************)
EXTENDS Naturals, Sequences

CONSTANTS
    Keys,      \* session keys (fingerprints)
    Members,   \* member names
    Tokens,    \* invite tokens, each standing for its digest too
    Devices,   \* operator device keys
    Server,    \* the server's key
    None       \* no member, no key

ASSUME PrincipalsAssumption ==
    /\ Keys \cap Devices = {}
    /\ Server \notin Keys \cup Devices
    /\ None \notin Keys \cup Devices \cup Members \cup {Server}

-----------------------------------------------------------------------------
(* The values the state is made of. *)

Roles == {"shepherd", "reviewer", "helper", "adapter", "operator"}

\* A well-formed roster: one role per name, at most one delegate, and the
\* devices its operator members list.
Roster ==
    [role: [Members -> Roles \cup {"absent"}],
     delegate: Members \cup {None},
     devices: SUBSET Devices]

Invite == [event: Nat, member: Members \cup {None}, consumed: BOOLEAN]

Statuses == {"absent", "active", "pending", "ended"}

Session ==
    [member: Members \cup {None}, start: Nat, status: Statuses,
     certs: SUBSET Nat, epoch: Nat, activatedBy: Nat]

Approval ==
    [member: Members, from: Keys, to: Keys, resume: Nat, context: BOOLEAN]

NoInvite == [event |-> 0, member |-> None, consumed |-> FALSE]

NoSession ==
    [member |-> None, start |-> 0, status |-> "absent",
     certs |-> {}, epoch |-> 0, activatedBy |-> 0]

State ==
    [admitted: Nat, epoch: Nat,
     roster: Roster, rosterId: Nat,
     invites: [Tokens -> Invite],
     sessions: [Keys -> Session],
     seen: SUBSET Members,
     holders: [Members -> Keys \cup {None}],
     approvals: SUBSET Approval,
     registered: SUBSET Devices,
     heads: [Keys -> Nat],
     handoffs: SUBSET Nat]

\* The state right after genesis, which carries the first roster.
GenesisState(roster) ==
    [admitted |-> 0, epoch |-> 0,
     roster |-> roster, rosterId |-> 0,
     invites |-> [t \in Tokens |-> NoInvite],
     sessions |-> [k \in Keys |-> NoSession],
     seen |-> {},
     holders |-> [m \in Members |-> None],
     approvals |-> {},
     registered |-> {},
     heads |-> [k \in Keys |-> 0],
     handoffs |-> {}]

-----------------------------------------------------------------------------
(* Events.  `cert` is the epoch of the certificate a session signs under.  *)

ServerKinds == {"invite", "session-start", "session-end", "epoch",
                "renewal", "device-cert", "handoff"}

ServerEvent(kind, body) ==
    [kind |-> kind, author |-> Server, cert |-> 0, prev |-> 0, body |-> body]

EpochEvent(e) == ServerEvent("epoch", [epoch |-> e])

MemberEvent(kind, author, cert, prev, body) ==
    [kind |-> kind, author |-> author, cert |-> cert, prev |-> prev,
     body |-> body]

\* Every event the log may hold.
ServerEvents(kind, bodies) ==
    [kind: {kind}, author: {Server}, cert: {0}, prev: {0}, body: bodies]

Event ==
    ServerEvents("invite", [member: Members, token: Tokens])
    \cup ServerEvents("session-start",
             [member: Members, token: Tokens, session: Keys, cert: Nat])
    \cup ServerEvents("session-end", [session: Keys])
    \cup ServerEvents("epoch", [epoch: Nat])
    \cup ServerEvents("renewal", [session: Keys, epoch: Nat, cert: Nat])
    \cup ServerEvents("device-cert", [device: Devices])
    \cup ServerEvents("handoff",
             [approval: Approval, resume: Nat,
              approver: Keys \cup Devices, cert: Nat])
    \cup [kind: {"roster"}, author: Keys \cup {Server}, cert: Nat, prev: Nat,
          body: [roster: Roster, replaces: Nat]]
    \cup [kind: {"work"}, author: Keys, cert: Nat, prev: Nat,
          body: [kind: {"work"}]]
    \cup [kind: {"answer"}, author: Devices, cert: {0}, prev: {0},
          body: [kind: {"answer"}]]

-----------------------------------------------------------------------------
(* Helpers over a state. *)

OnRoster(st, m) == m \in Members /\ st.roster.role[m] # "absent"

\* Mutant: an ended session still counts as live.
LiveOnceStarted(st, k) == st.sessions[k].status # "absent"

Live(st, k) == st.sessions[k].status \in {"active", "pending"}

LiveSessions(st) == {k \in Keys : Live(st, k)}

\* The one roster change that strands live sessions.
DropsMember(before, after) ==
    \E m \in Members : before.role[m] # "absent" /\ after.role[m] = "absent"

EpochFor(st, kind) == IF kind = "epoch" THEN st.epoch + 1 ELSE st.epoch

\* What a hand-off must resume from: the last event, or the session-start.
LastHead(st, k) ==
    IF st.heads[k] # 0 THEN st.heads[k] ELSE st.sessions[k].start

-----------------------------------------------------------------------------
(* Who signed: the server, a device the log registered, or a session that  *)
(* has not ended, under a certificate the log recorded for it and that is  *)
(* bounded to this very epoch.                                             *)

\* Mutant: any certificate the log recorded will do, whatever its epoch.
ResolvesAnyEpoch(st, author, cert, epoch) ==
    \/ author = Server
    \/ author \in Devices /\ author \in st.registered
    \/ /\ author \in Keys
       /\ Live(st, author)
       /\ cert \in st.sessions[author].certs

Resolves(st, author, cert, epoch) ==
    \/ author = Server
    \/ author \in Devices /\ author \in st.registered
    \/ /\ author \in Keys
       /\ Live(st, author)
       /\ cert \in st.sessions[author].certs
       /\ cert = epoch

\* The class gate of the admission table, and the roster a session needs.
MayAuthor(st, ev) ==
    \/ ev.author = Server /\ ev.kind \in ServerKinds \cup {"roster"}
    \/ /\ ev.author \in Devices
       /\ ev.kind = "answer"
       /\ ev.author \in st.roster.devices
    \/ /\ ev.author \in Keys
       /\ st.sessions[ev.author].status # "pending"
       /\ OnRoster(st, st.sessions[ev.author].member)
       /\ \/ ev.kind = "work"
          \/ /\ ev.kind = "roster"
             /\ st.roster.role[st.sessions[ev.author].member] = "shepherd"

\* Mutant: a shepherd's roster may move the delegate.
RosterOkUnlocked(st, ev) ==
    ev.kind = "roster" =>
        /\ ev.author # Server => ev.body.roster.devices = st.roster.devices
        /\ ev.body.replaces = st.rosterId

\* Only the server moves the delegate or the devices, and a roster replaces
\* the one in force.
RosterOk(st, ev) ==
    ev.kind = "roster" =>
        /\ ev.author # Server =>
              /\ ev.body.roster.delegate = st.roster.delegate
              /\ ev.body.roster.devices = st.roster.devices
        /\ ev.body.replaces = st.rosterId

\* `prev` is the session author's head; a first event may name a hand-off.
WriterChain(st, ev) ==
    \/ ev.author = Server
    \/ ev.author \in Devices /\ ev.prev = 0
    \/ /\ ev.author \in Keys
       /\ \/ ev.prev = st.heads[ev.author]
          \/ st.heads[ev.author] = 0 /\ ev.prev \in st.handoffs

\* The events a server event cites must be admitted ones.
CitesAdmitted(st, ev) ==
    ev.kind = "handoff" => ev.body.resume \in 1..st.admitted

Admit(st, ev) ==
    MayAuthor(st, ev) /\ RosterOk(st, ev) /\ WriterChain(st, ev)
                      /\ CitesAdmitted(st, ev)

-----------------------------------------------------------------------------
(* Whether a server event is legal given what came before. *)

InviteOk(st, b) ==
    OnRoster(st, b.member) /\ st.invites[b.token].event = 0

\* Mutant: whether the invite was consumed is checked only when enrolling
\* begins.
SessionStartOkReuse(st, b, epoch) ==
    /\ st.invites[b.token].event # 0
    /\ st.invites[b.token].member = b.member
    /\ st.sessions[b.session].status = "absent"
    /\ b.cert = epoch

SessionStartOk(st, b, epoch) ==
    /\ st.invites[b.token].event # 0
    /\ ~st.invites[b.token].consumed
    /\ st.invites[b.token].member = b.member
    /\ st.sessions[b.session].status = "absent"
    /\ b.cert = epoch

RenewalOk(st, b, epoch) ==
    /\ Live(st, b.session)
    /\ b.epoch = epoch
    /\ st.sessions[b.session].epoch < epoch
    /\ b.cert = epoch

\* The roster's hand-off authority: a listed device for a shepherd or for the
\* delegate, an active shepherd session for a helper, and nobody else.
ApproverOk(st, member, approver, cert, epoch) ==
    LET role == st.roster.role[member] IN
    \/ /\ approver \in Devices
       /\ approver \in st.roster.devices
       /\ st.roster.delegate = member \/ role = "shepherd"
    \/ /\ approver \in Keys
       /\ st.roster.delegate # member
       /\ Resolves(st, approver, cert, epoch)
       /\ st.sessions[approver].status = "active"
       /\ OnRoster(st, st.sessions[approver].member)
       /\ st.roster.role[st.sessions[approver].member] = "shepherd"
       /\ role = "helper"

\* Mutant: the session that takes the role need not be pending.
HandoffOkAnyTo(st, b, epoch) ==
    LET a == b.approval IN
    /\ b.resume = a.resume /\ a.context
    /\ a \notin st.approvals
    /\ st.sessions[a.from].status # "absent"
    /\ st.sessions[a.to].status # "absent"
    /\ st.sessions[a.from].member = a.member
    /\ st.sessions[a.to].member = a.member
    /\ st.holders[a.member] = a.from
    /\ a.resume = LastHead(st, a.from)
    /\ OnRoster(st, a.member)
    /\ ApproverOk(st, a.member, b.approver, b.cert, epoch)

HandoffOk(st, b, epoch) ==
    LET a == b.approval IN
    /\ b.resume = a.resume /\ a.context
    /\ a \notin st.approvals
    /\ st.sessions[a.from].status # "absent"
    /\ st.sessions[a.to].status # "absent"
    /\ st.sessions[a.from].member = a.member
    /\ st.sessions[a.to].member = a.member
    /\ st.holders[a.member] = a.from
    /\ st.sessions[a.to].status = "pending"
    /\ a.resume = LastHead(st, a.from)
    /\ OnRoster(st, a.member)
    /\ ApproverOk(st, a.member, b.approver, b.cert, epoch)

Check(st, ev, epoch) ==
    /\ ev.kind = "invite" => InviteOk(st, ev.body)
    /\ ev.kind = "session-start" => SessionStartOk(st, ev.body, epoch)
    /\ ev.kind = "session-end" => Live(st, ev.body.session)
    /\ ev.kind = "epoch" => ev.body.epoch = epoch
    /\ ev.kind = "renewal" => RenewalOk(st, ev.body, epoch)
    /\ ev.kind = "device-cert" => ev.body.device \notin st.registered
    /\ ev.kind = "handoff" => HandoffOk(st, ev.body, epoch)

\* Mutant: a session a hand-off activated may also start afresh.
FirstLinkOptional(st, ev) ==
    (ev.author \in Keys /\ st.heads[ev.author] = 0)
        => ev.prev \in {0, st.sessions[ev.author].activatedBy}

\* A session's first event names the hand-off that activated it, and only a
\* session a hand-off activated names one.
FirstLink(st, ev) ==
    (ev.author \in Keys /\ st.heads[ev.author] = 0)
        => ev.prev = st.sessions[ev.author].activatedBy

\* Signer, then the table, then the session rules: live and on replay.
Vet(st, ev) ==
    LET epoch == EpochFor(st, ev.kind) IN
    /\ Resolves(st, ev.author, ev.cert, epoch)
    /\ Admit(st, ev)
    /\ Check(st, ev, epoch)
    /\ FirstLink(st, ev)

-----------------------------------------------------------------------------
(* Taking a vetted event in: Sessions::observe, Board::apply and           *)
(* Chain::advance, one operator per part of the state.                     *)

InvitesAfter(st, ev) ==
    CASE ev.kind = "invite" ->
           [st.invites EXCEPT ![ev.body.token] =
               [event |-> st.admitted + 1, member |-> ev.body.member,
                consumed |-> FALSE]]
      [] ev.kind = "session-start" ->
           [st.invites EXCEPT ![ev.body.token] =
               [event |-> @.event, member |-> @.member, consumed |-> TRUE]]
      [] OTHER -> st.invites

\* Mutant: every new session is active.
StartedActive(st, ev) ==
    [member |-> ev.body.member, start |-> st.admitted + 1,
     status |-> "active",
     certs |-> {ev.body.cert}, epoch |-> st.epoch, activatedBy |-> 0]

\* A member's first session is active; any later one waits for a hand-off.
Started(st, ev) ==
    [member |-> ev.body.member, start |-> st.admitted + 1,
     status |-> IF ev.body.member \in st.seen THEN "pending" ELSE "active",
     certs |-> {ev.body.cert}, epoch |-> st.epoch, activatedBy |-> 0]

SessionsAfter(st, ev) ==
    CASE ev.kind = "session-start" ->
           [st.sessions EXCEPT ![ev.body.session] = Started(st, ev)]
      [] ev.kind = "session-end" ->
           [st.sessions EXCEPT ![ev.body.session].status = "ended"]
      [] ev.kind = "handoff" ->
           [st.sessions EXCEPT
               ![ev.body.approval.from].status = "ended",
               ![ev.body.approval.to].status = "active",
               ![ev.body.approval.to].activatedBy = st.admitted + 1]
      [] ev.kind = "renewal" ->
           [st.sessions EXCEPT
               ![ev.body.session].certs = @ \cup {ev.body.cert},
               ![ev.body.session].epoch = ev.body.epoch]
      [] OTHER -> st.sessions

HoldersAfter(st, ev) ==
    CASE ev.kind = "session-start" /\ ev.body.member \notin st.seen ->
           [st.holders EXCEPT ![ev.body.member] = ev.body.session]
      [] ev.kind = "handoff" ->
           [st.holders EXCEPT
               ![st.sessions[ev.body.approval.to].member] =
                   ev.body.approval.to]
      [] OTHER -> st.holders

Apply(st, ev) ==
    LET id == st.admitted + 1 IN
    [admitted |-> id,
     epoch |-> EpochFor(st, ev.kind),
     roster |-> IF ev.kind = "roster" THEN ev.body.roster ELSE st.roster,
     rosterId |-> IF ev.kind = "roster" THEN id ELSE st.rosterId,
     invites |-> InvitesAfter(st, ev),
     sessions |-> SessionsAfter(st, ev),
     seen |-> IF ev.kind = "session-start"
              THEN st.seen \cup {ev.body.member} ELSE st.seen,
     holders |-> HoldersAfter(st, ev),
     approvals |-> IF ev.kind = "handoff"
                   THEN st.approvals \cup {ev.body.approval}
                   ELSE st.approvals,
     registered |-> IF ev.kind = "device-cert"
                    THEN st.registered \cup {ev.body.device}
                    ELSE st.registered,
     heads |-> IF ev.author \in Keys
               THEN [st.heads EXCEPT ![ev.author] = id] ELSE st.heads,
     handoffs |-> IF ev.kind = "handoff"
                  THEN st.handoffs \cup {id} ELSE st.handoffs]

-----------------------------------------------------------------------------
(* What every vetted history keeps true of the session table. *)

\* An active session holds its member's role.
ActiveHolds(st) ==
    \A k \in Keys : st.sessions[k].status = "active" =>
        st.holders[st.sessions[k].member] = k

\* A pending session waits behind a holder other than itself, and has neither
\* written nor been activated.
PendingWaits(st) ==
    \A k \in Keys : st.sessions[k].status = "pending" =>
        /\ st.holders[st.sessions[k].member] \notin {k, None}
        /\ st.heads[k] = 0
        /\ st.sessions[k].activatedBy = 0

\* Every enrolled session belongs to a member that has been seen, and a key
\* that is not enrolled has written nothing.
EnrolledSeen(st) ==
    \A k \in Keys :
        /\ st.sessions[k].status # "absent" => st.sessions[k].member \in st.seen
        /\ st.sessions[k].status = "absent" => st.heads[k] = 0

\* A member has a holder from its first session on: a session of its own that
\* is active or ended, never a pending one.
HoldersEnrolled(st) ==
    \A m \in Members :
        /\ m \in st.seen <=> st.holders[m] # None
        /\ st.holders[m] # None =>
              /\ st.sessions[st.holders[m]].status \in {"active", "ended"}
              /\ st.sessions[st.holders[m]].member = m

SessionTableOK(st) ==
    ActiveHolds(st) /\ PendingWaits(st) /\ EnrolledSeen(st)
                    /\ HoldersEnrolled(st)

=============================================================================
