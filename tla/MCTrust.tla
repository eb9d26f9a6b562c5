------------------------------- MODULE MCTrust -------------------------------
(***************************************************************************)
(* Whose word counts and for how much: the revocation logs of a home,      *)
(* certificate chains, grant chains, and the prekey bundles of the         *)
(* ratchet.  A behaviour explores one of them.                             *)
(***************************************************************************)
EXTENDS Revocation, Certificates, Authority, Ratchet, TLC

VARIABLE which   \* the component that this behaviour is of

Narrow == [CaveatsTop EXCEPT !.exec = Only({"item"}), !.max_calls = AtMost(1)]
Dated == [CaveatsTop EXCEPT !.valid_for_generation = Only({1})]
Bare == [Narrow EXCEPT !.exec = Only({}), !.valid_for_generation = Only({1, 2})]
MCAllowances == {CaveatsTop, Narrow, Dated, Bare}
MCBodies == {CaveatsTop, Narrow, Bare}

\* Each agent is its own user's.
OwnUser == [a \in Agents |-> a]

Symmetry == Permutations(Guards) \cup Permutations(Commands)

allVars == <<which, vars, certVars, authVars, ratchetVars>>

MCInit ==
    /\ which \in {"revocation", "certificates", "grants", "ratchet"}
    /\ Init
    /\ CertInit
    /\ AuthInit
    /\ RatchetInit
    /\ which # "revocation" => log = NoLog

\* These may come to rest.
Rests ==
    /\ which \in {"certificates", "grants", "ratchet"}
    /\ UNCHANGED allVars

MCNext ==
    \/ which = "revocation" /\ Next
       /\ UNCHANGED <<which, certVars, authVars, ratchetVars>>
    \/ which = "certificates" /\ CertNext
       /\ UNCHANGED <<which, vars, authVars, ratchetVars>>
    \/ which = "grants" /\ AuthNext
       /\ UNCHANGED <<which, vars, certVars, ratchetVars>>
    \/ which = "ratchet" /\ RatchetNext
       /\ UNCHANGED <<which, vars, certVars, authVars>>
    \/ Rests

MCSpec == MCInit /\ [][MCNext]_allVars

===============================================================================
