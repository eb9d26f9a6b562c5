------------------------------- MODULE MCFlock -------------------------------
(***************************************************************************)
(* A small flock: a shepherd `s`, a helper `h`, one operator device.  A    *)
(* behaviour starts with an empty log and covers enrolment, or with a      *)
(* flock that is staffed and covers what happens to its sessions.          *)
(***************************************************************************)
EXTENDS FlockServer, TLC

CONSTANTS s, h, d1

MCMembers == {s, h}

RosterOf(rs, rh, del) ==
    [role |-> (s :> rs @@ h :> rh), delegate |-> del, devices |-> {d1}]

Both == RosterOf("shepherd", "helper", None)
HelperDropped == RosterOf("shepherd", "absent", None)
HelperDelegate == RosterOf("shepherd", "helper", h)

MCRosters == {Both, HelperDropped, HelperDelegate}

\* A flock that is already staffed: `k1` is the shepherd's session, `k2` the
\* helper's, and `k3` waits to replace `k2`.
CONSTANTS k1, k2, k3, t1, t2, t3

Staffing ==
    LET invite(t, m) == ServerEvent("invite", [member |-> m, token |-> t])
        start(t, m, k) == ServerEvent("session-start",
            [member |-> m, token |-> t, session |-> k, cert |-> 0])
    IN  <<invite(t1, s), start(t1, s, k1), invite(t2, h), start(t2, h, k2),
          invite(t3, h), start(t3, h, k3)>>

StaffedState ==
    LET r[i \in 0..Len(Staffing)] ==
          IF i = 0 THEN GenesisState(Genesis) ELSE Apply(r[i - 1], Staffing[i])
    IN  r[Len(Staffing)]

StaffedInit ==
    /\ st = StaffedState
    /\ held = [n \in Nonces |-> NoChallenge]
    /\ log = Staffing
    /\ ends = DOMAIN Staffing

CONSTANT MaxEnrolled   \* bound on the length of a log that starts empty

VARIABLE start

Early == INSTANCE FlockServer WITH MaxAdmitted <- MaxEnrolled

MCInit ==
    \/ start = "empty" /\ Init
    \/ start = "staffed" /\ StaffedInit

MCNext ==
    \/ start = "empty" /\ Early!Next /\ UNCHANGED start
    \/ start = "staffed" /\ Next /\ UNCHANGED start

MCSpec == MCInit /\ [][MCNext]_<<start, vars>>

Symmetry ==
    Permutations(Keys) \cup Permutations(Tokens) \cup Permutations(Nonces)

=============================================================================
