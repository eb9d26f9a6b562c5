---------------------------- MODULE FlockServer ----------------------------
(***************************************************************************)
(* The flock server's entry points (flock-server/entry.rs and server.rs)   *)
(* as a state machine over the derived state of FlockState.                *)
(*                                                                         *)
(* One process holds the server's mutex around each call, so each entry    *)
(* point is one action; what interleaves is the two-call exchanges         *)
(* (enroll, renew), the events sessions submit, epoch bumps and restarts.  *)
(* A refused call changes nothing but the challenge it spent.  Appending a *)
(* frame is atomic here; FlockLog models the file underneath.              *)
(***************************************************************************)
EXTENDS FlockState

CONSTANTS
    Nonces,      \* challenge nonces; a spent one may be drawn again
    Rosters,     \* the rosters that the operator or a shepherd may write
    Genesis,     \* the roster in the genesis
    MaxAdmitted  \* bound on the log's length

ASSUME BoundsAssumption ==
    /\ Genesis \in Roster
    /\ Rosters \subseteq Roster
    /\ MaxAdmitted \in Nat

VARIABLES
    st,     \* the live derived state
    held,   \* the challenge held under each nonce: volatile
    log,    \* the admission log: the events in index order
    ends    \* the indices at which a frame of the log ends

vars == <<st, held, log, ends>>

NoChallenge ==
    [purpose |-> "none", key |-> None, token |-> None, epoch |-> 0]

Held ==
    {NoChallenge}
    \cup [purpose: {"enroll"}, key: Keys, token: Tokens, epoch: {0}]
    \cup [purpose: {"renew"}, key: Keys, token: {None}, epoch: Nat]

Init ==
    /\ st = GenesisState(Genesis)
    /\ held = [n \in Nonces |-> NoChallenge]
    /\ log = <<>>
    /\ ends = {}

-----------------------------------------------------------------------------
(* Transactions: every event is vetted against the state the previous one  *)
(* left, then all go out in one frame.                                     *)

Prepares1(a) == Vet(st, a)

Prepares2(a, b) == Vet(st, a) /\ Vet(Apply(st, a), b)

Commit1(a) ==
    /\ st.admitted < MaxAdmitted
    /\ log' = Append(log, a)
    /\ ends' = ends \cup {st.admitted + 1}
    /\ st' = Apply(st, a)

\* Mutant: the frame that reaches the log lacks its second event.
Commit2Half(a, b) ==
    /\ st.admitted + 1 < MaxAdmitted
    /\ log' = Append(log, a)
    /\ ends' = ends \cup {st.admitted + 1}
    /\ st' = Apply(Apply(st, a), b)

Commit2(a, b) ==
    /\ st.admitted + 1 < MaxAdmitted
    /\ log' = log \o <<a, b>>
    /\ ends' = ends \cup {st.admitted + 2}
    /\ st' = Apply(Apply(st, a), b)

Bump == EpochEvent(st.epoch + 1)

\* Mutant: no roster carries an epoch bump.
CommitRosterBare(ev) == Prepares1(ev) /\ Commit1(ev)

\* A roster that drops a member is sealed with its epoch bump.
CommitRoster(ev) ==
    IF DropsMember(st.roster, ev.body.roster)
    THEN Prepares2(ev, Bump) /\ Commit2(ev, Bump)
    ELSE Prepares1(ev) /\ Commit1(ev)

Issue(n, c) ==
    /\ held[n].purpose = "none"
    /\ held' = [held EXCEPT ![n] = c]
    /\ UNCHANGED <<st, log, ends>>

Spend(n) == held' = [held EXCEPT ![n] = NoChallenge]

-----------------------------------------------------------------------------
(* Enrollment. *)

InviteMember(t, m) ==
    LET ev == ServerEvent("invite", [member |-> m, token |-> t]) IN
    /\ Prepares1(ev) /\ Commit1(ev)
    /\ UNCHANGED held

EnrollBegin(n, t, k) ==
    /\ st.invites[t].event # 0
    /\ ~st.invites[t].consumed
    /\ st.sessions[k].status = "absent"
    /\ Issue(n, [purpose |-> "enroll", key |-> k, token |-> t, epoch |-> 0])

\* The certificate is minted for the epoch of the finish, not of the begin.
EnrollFinish(n) ==
    LET c == held[n]
        ev == ServerEvent("session-start",
                 [member |-> st.invites[c.token].member, token |-> c.token,
                  session |-> c.key, cert |-> st.epoch])
    IN  /\ c.purpose = "enroll"
        /\ Spend(n)
        /\ \/ Prepares1(ev) /\ Commit1(ev)
           \/ ~Prepares1(ev) /\ UNCHANGED <<st, log, ends>>

-----------------------------------------------------------------------------
(* Renewal. *)

RenewChallenge(k) ==
    [purpose |-> "renew", key |-> k, token |-> None, epoch |-> st.epoch]

\* The session asks with any certificate the log recorded for it.
RenewBegin(n, k) ==
    /\ Live(st, k)
    /\ st.sessions[k].certs # {}
    /\ st.sessions[k].epoch < st.epoch
    /\ Issue(n, RenewChallenge(k))

\* A challenge for every live session that is behind, under fresh nonces.
RenewalChallenges ==
    LET due == {k \in LiveSessions(st) : st.sessions[k].epoch < st.epoch}
        free == {n \in Nonces : held[n].purpose = "none"}
    IN  /\ due # {}
        /\ \E f \in [due -> free] :
              /\ \A j, k \in due : f[j] = f[k] => j = k
              /\ held' = [n \in Nonces |->
                             IF \E k \in due : f[k] = n
                             THEN RenewChallenge(CHOOSE k \in due : f[k] = n)
                             ELSE held[n]]
        /\ UNCHANGED <<st, log, ends>>

RenewFinish(n) ==
    LET c == held[n]
        ev == ServerEvent("renewal",
                 [session |-> c.key, epoch |-> c.epoch, cert |-> st.epoch])
        ok == c.epoch = st.epoch /\ Live(st, c.key) /\ Prepares1(ev)
    IN  /\ c.purpose = "renew"
        /\ Spend(n)
        /\ \/ ok /\ Commit1(ev)
           \/ ~ok /\ UNCHANGED <<st, log, ends>>

\* A bad proof, or a finish of the other purpose: the challenge is spent.
Misanswer(n) ==
    /\ held[n].purpose # "none"
    /\ Spend(n)
    /\ UNCHANGED <<st, log, ends>>

-----------------------------------------------------------------------------
(* Authority that shrinks: the event and the epoch bump in one frame. *)

EndSession(k) ==
    LET ev == ServerEvent("session-end", [session |-> k]) IN
    /\ Live(st, k)
    /\ Prepares2(ev, Bump) /\ Commit2(ev, Bump)
    /\ UNCHANGED held

Handoff(a, approver, cert) ==
    LET ev == ServerEvent("handoff",
                 [approval |-> a, resume |-> a.resume, approver |-> approver,
                  cert |-> cert])
    IN  /\ st.sessions[a.from].status # "absent"
        /\ st.sessions[a.to].status # "absent"
        /\ Prepares2(ev, Bump) /\ Commit2(ev, Bump)
        /\ UNCHANGED held

\* Also set_roots, which keeps the members and replaces the declared roots.
ReplaceRoster(r) ==
    /\ CommitRoster(ServerEvent("roster",
                                [roster |-> r, replaces |-> st.rosterId]))
    /\ UNCHANGED held

RegisterDevice(d) ==
    LET ev == ServerEvent("device-cert", [device |-> d]) IN
    /\ Prepares1(ev) /\ Commit1(ev)
    /\ UNCHANGED held

-----------------------------------------------------------------------------
(* Events a session or a device signed and submitted: any certificate it   *)
(* was ever given, any `prev`, however old the state it was built on.      *)

AdmitWork(k, cert, prev) ==
    LET ev == MemberEvent("work", k, cert, prev, [kind |-> "work"]) IN
    /\ Prepares1(ev) /\ Commit1(ev)
    /\ UNCHANGED held

AdmitRoster(k, cert, prev, r, replaces) ==
    /\ CommitRoster(MemberEvent("roster", k, cert, prev,
                                [roster |-> r, replaces |-> replaces]))
    /\ UNCHANGED held

AdmitAnswer(d) ==
    LET ev == MemberEvent("answer", d, 0, 0, [kind |-> "answer"]) IN
    /\ Prepares1(ev) /\ Commit1(ev)
    /\ UNCHANGED held

\* A restart rebuilds the state from the log and forgets every challenge.
Restart ==
    /\ \E n \in Nonces : held[n] # NoChallenge
    /\ held' = [n \in Nonces |-> NoChallenge]
    /\ UNCHANGED <<st, log, ends>>

-----------------------------------------------------------------------------

(* What callers may present: every certificate a key was ever given, right  *)
(* and wrong values of `prev` and of the roster to replace, and approvals   *)
(* for the present and for past states of the sessions they name.           *)

CertsOf(w) == IF w \in Keys THEN st.sessions[w].certs ELSE {0}

PrevsOf(k) ==
    {0, st.heads[k], st.sessions[k].activatedBy} \cup st.handoffs

Enrolled == {k \in Keys : st.sessions[k].status # "absent"}

Approvals(f, t) ==
    [member: {st.sessions[t].member}, from: {f}, to: {t},
     resume: {st.sessions[f].start, st.heads[f]}, context: BOOLEAN]

Entry ==
    \/ \E t \in Tokens, m \in Members : InviteMember(t, m)
    \/ \E n \in Nonces, t \in Tokens, k \in Keys : EnrollBegin(n, t, k)
    \/ \E n \in Nonces : EnrollFinish(n)
    \/ \E n \in Nonces, k \in Keys : RenewBegin(n, k)
    \/ RenewalChallenges
    \/ \E n \in Nonces : RenewFinish(n)
    \/ \E n \in Nonces : Misanswer(n)

Administration ==
    \/ \E k \in Keys : EndSession(k)
    \/ \E f, t \in Enrolled, w \in Keys \cup Devices :
          \E a \in Approvals(f, t), c \in CertsOf(w) : Handoff(a, w, c)
    \/ \E r \in Rosters : ReplaceRoster(r)
    \/ \E d \in Devices : RegisterDevice(d)

Submission ==
    \/ \E k \in Keys : \E c \in CertsOf(k), p \in PrevsOf(k) :
          AdmitWork(k, c, p)
    \/ \E k \in Keys : \E c \in CertsOf(k), p \in PrevsOf(k), r \in Rosters,
          q \in {0, st.rosterId} : AdmitRoster(k, c, p, r, q)
    \/ \E d \in Devices : AdmitAnswer(d)

Next == Entry \/ Administration \/ Submission \/ Restart

Spec == Init /\ [][Next]_vars

-----------------------------------------------------------------------------
(* Properties. *)

TypeOK ==
    /\ st \in State
    /\ held \in [Nonces -> Held]
    /\ log \in Seq(Event)
    /\ Len(log) = st.admitted
    /\ ends \subseteq 1..st.admitted

\* A member has at most one active session, and it is the one that holds the
\* member's role; a pending session has signed nothing and was never
\* activated; a role, once held, is never left to a key that is not a session
\* of that member.  (Sessions::observe; docs/decisions/flock.md "a member has
\* at most one active session".)
SingleHolder ==
    /\ SessionTableOK(st)
    /\ \A j, k \in Keys :
          /\ st.sessions[j].status = "active"
          /\ st.sessions[k].status = "active"
          /\ st.sessions[j].member = st.sessions[k].member
          => j = k

\* The indices of the session-starts of log l.
Starts(l) == {i \in DOMAIN l : l[i].kind = "session-start"}

EnrolledOnce(l) ==
    \A i, j \in Starts(l) :
        \/ l[i].body.token = l[j].body.token
        \/ l[i].body.session = l[j].body.session
        => i = j

\* An invite is consumed by one session-start, however many challenges were
\* open for it; and a session key is enrolled once.  (enroll_begin checks the
\* token, enroll_finish uses it later.)
InviteSingleUse == EnrolledOnce(log)

\* Event ev ends session k.
Ends(ev, k) ==
    \/ ev.kind = "session-end" /\ ev.body.session = k
    \/ ev.kind = "handoff" /\ ev.body.approval.from = k

\* The keys whose signature event ev rests on.
Signers(ev) ==
    {ev.author} \cup IF ev.kind = "handoff" THEN {ev.body.approver} ELSE {}

Renews(ev, k) == ev.kind = "renewal" /\ ev.body.session = k

SilentOnceEnded(l) ==
    \A i, j \in DOMAIN l : i < j =>
        \A k \in Keys : Ends(l[i], k) => k \notin Signers(l[j]) /\ ~Renews(l[j], k)

\* Nothing rests on the signature of a session after the event that ended it:
\* neither an event of its own, nor an approval, nor a renewal.
NoZombieWrites == SilentOnceEnded(log)

\* Event ev takes authority away from a flock with roster r: a session ends, a role
\* moves, or a new roster drops a member of it.
TakesAuthority(r, ev) ==
    \/ ev.kind \in {"session-end", "handoff"}
    \/ ev.kind = "roster" /\ DropsMember(r, ev.body.roster)

Latest(S) == CHOOSE i \in S : \A j \in S : j <= i

\* The roster in force before index i of log l.
RostersBefore(l, i) == {j \in 1..(i - 1) : l[j].kind = "roster"}

RosterBefore(l, i) ==
    LET r == RostersBefore(l, i) IN
    IF r = {} THEN Genesis ELSE l[Latest(r)].body.roster

Shrinks(l, i) == TakesAuthority(RosterBefore(l, i), l[i])

\* Event ev gives session k a certificate.
Certifies(ev, k) ==
    ev.kind \in {"session-start", "renewal"} /\ ev.body.session = k

\* After authority shrinks, no session signs anything under a certificate it
\* was given before.  (The epoch bump in the same frame, certificates bounded
\* to one epoch, and the epoch checks of resolve and renew_finish together.)
StaleCertificateNeverSigns(l) ==
    \A i, j \in DOMAIN l : (i < j /\ Shrinks(l, i)) =>
        \A k \in Keys \cap Signers(l[j]) :
            \E c \in (i + 1)..(j - 1) : Certifies(l[c], k)

\* What session k wrote before index j.
WrittenBefore(l, k, j) == {i \in 1..(j - 1) : l[i].author = k}

ActivationsBefore(l, k, j) ==
    {i \in 1..(j - 1) : l[i].kind = "handoff" /\ l[i].body.approval.to = k}

StartsBefore(l, k, j) ==
    {i \in 1..(j - 1) : l[i].kind = "session-start" /\ l[i].body.session = k}

\* Where the next event of session k chains to, before index j.
ChainsFrom(l, k, j) ==
    LET w == WrittenBefore(l, k, j)
        a == ActivationsBefore(l, k, j)
    IN  IF w # {} THEN Latest(w) ELSE IF a # {} THEN Latest(a) ELSE 0

\* Where whoever replaces session k resumes, before index j.
ResumesFrom(l, k, j) ==
    LET w == WrittenBefore(l, k, j) IN
    IF w # {} THEN Latest(w) ELSE Latest(StartsBefore(l, k, j))

\* Each session's events form one chain without forks or gaps, rooted in the
\* hand-off that activated it if one did, and each hand-off resumes exactly
\* from the last thing the session it retires ever wrote.  So the history of a
\* role is one line across all the sessions that held it.
RoleHistoryIsOneChain(l) ==
    \A j \in DOMAIN l :
        /\ l[j].author \in Keys => l[j].prev = ChainsFrom(l, l[j].author, j)
        /\ l[j].kind = "handoff" =>
              l[j].body.resume = ResumesFrom(l, l[j].body.approval.from, j)

\* The delegate named by the last roster the server itself signed before j.
OwnersRosters(l, j) ==
    {i \in 1..(j - 1) : l[i].kind = "roster" /\ l[i].author = Server}

OwnersDelegate(l, j) ==
    LET r == OwnersRosters(l, j) IN
    IF r = {} THEN Genesis.delegate ELSE l[Latest(r)].body.roster.delegate

\* A session never approves the replacement of the member that the owner made
\* the delegate, whatever rosters shepherds wrote in between.
DelegateIsTheOwners(l) ==
    \A j \in DOMAIN l :
        (l[j].kind = "handoff" /\ l[j].body.approver \in Keys)
            => l[j].body.approval.member # OwnersDelegate(l, j)

Lawful(l) ==
    /\ RoleHistoryIsOneChain(l)
    /\ StaleCertificateNeverSigns(l)
    /\ DelegateIsTheOwners(l)

\* In the log each role's history is one chain across the sessions that held it, no
\* session signs under a certificate older than a loss of authority, and none replaces
\* the owner's delegate.  (Sessions::check and observe, resolve, writer_chain, and the
\* epoch bump of server.rs, over any sequence of calls.)
HistoryIsLawful == Lawful(log)

\* Event i is followed by an epoch bump in its own frame.
Bumped(i) == i \notin ends /\ i < Len(log) /\ log[i + 1].kind = "epoch"

\* Replay takes event i in only if it was legal then, and with the bump it needs.
Accepts(p, i) ==
    Vet(p, log[i]) /\ (TakesAuthority(p.roster, log[i]) => Bumped(i))

ReplayStep(p, i) ==
    IF p.ok /\ Accepts(p.st, i)
    THEN [ok |-> TRUE, st |-> Apply(p.st, log[i])]
    ELSE [ok |-> FALSE, st |-> p.st]

Replayed ==
    LET r[i \in 0..Len(log)] ==
          IF i = 0 THEN [ok |-> TRUE, st |-> GenesisState(Genesis)]
          ELSE ReplayStep(r[i - 1], i)
    IN  r[Len(log)]

\* Replaying the log from genesis, frame by frame as recovery and every
\* follower do, accepts it and rebuilds the live state: a server that admits
\* something replay refuses could never be opened again.
LiveIsReplayed == Replayed = [ok |-> TRUE, st |-> st]

\* What a step from state s to state t may do to sessions and roles.
Ages(s, t) ==
    /\ \A k \in Keys : s.sessions[k].status = "ended"
                          => t.sessions[k].status = "ended"
    /\ \A m \in Members :
          (s.holders[m] # None /\ t.holders[m] # s.holders[m]) =>
             /\ t.handoffs # s.handoffs
             /\ s.sessions[s.holders[m]].member = m
             /\ t.sessions[s.holders[m]].status = "ended"
             /\ s.sessions[t.holders[m]].status = "pending"
    /\ t.epoch >= s.epoch

\* A session that ended stays ended, a role moves only to the session a
\* hand-off names in that very step, and the epoch never goes back.
SessionsOnlyAge == [][Ages(st, st')]_vars

=============================================================================
