-------------------------------- MODULE Authority ------------------------------
(***************************************************************************)
(* Grants and admission (agent-mesh-protocol authority.rs): a grant names  *)
(* an authority by its content and the grant it derives from; a chain of   *)
(* grants is trusted when it leads to the one configured root; a resolved  *)
(* fence is admitted when every axis of it lies within what was delegated  *)
(* and the closure of the runtime together.                                *)
(*                                                                         *)
(* An id is a hash of content, so a content stands for its own id.         *)
(***************************************************************************)
EXTENDS Caveats, Sequences, FiniteSets

CONSTANTS
    Bodies,      \* the caveats that grants name
    Root,        \* the caveats of the trusted root
    Items,       \* what a fence may reach
    Classes,     \* classes of such, resolved elsewhere
    MaxGrants    \* bound on the grants of a chain

VARIABLES
    grants,   \* the chain that is presented, leaf first
    fence,    \* the fence that was last admitted or refused
    closure,  \* with the closure it was held against
    admitted  \* the decision

ASSUME AuthAssumption ==
    Bodies \subseteq Caveats(Items) /\ Root \in Caveats(Items)

-------------------------------------------------------------------------------
(* Grants *)

NoGrant == [authority |-> CaveatsTop, derivation |-> [kind |-> "none"]]
RootGrant(c) == [authority |-> c, derivation |-> [kind |-> "root"]]
Attenuation(c, parent) == [authority |-> c, derivation |-> [kind |-> "attenuation", parent |-> parent]]
Elevation(c, parent, a) ==
    [authority |-> c, derivation |-> [kind |-> "elevation", parent |-> parent, attestation |-> a]]

\* A plausible bug: the body is not compared with what the grant names.
BindUnchecked(grant, body) == TRUE

\* ResolvedGrant::bind: a grant goes with the authority whose content it names.
Bind(grant, body) == grant.authority = body

\* AttestationVerifier, which the caller supplies: a signed statement of the very edge.
VerifyElevation(parent, child, a) == a.signed /\ a.parent = parent /\ a.authority = child.authority

\* check_derivation: the parent's id is computed from the parent, never taken from the
\* child, and an attenuation allows at most what the parent does.
CheckDerivation(child, parent) ==
    LET d == child.grant.derivation
    IN \/ d.kind = "root"
       \/ /\ d.kind = "attenuation" /\ d.parent = parent.grant
          /\ Leq(child.body, parent.body)
       \/ /\ d.kind = "elevation" /\ d.parent = parent.grant
          /\ VerifyElevation(parent.grant, child.grant, d.attestation)

\* verify_chain: every edge derives, only the end is a root, and it is the trusted one.
Trusted(gs) ==
    /\ gs # <<>>
    /\ \A i \in 1..Len(gs) - 1 : /\ gs[i].grant.derivation.kind # "root"
                                 /\ CheckDerivation(gs[i], gs[i + 1])
    /\ gs[Len(gs)].grant = RootGrant(Root)

-------------------------------------------------------------------------------
(* Admission *)

\* ResolvedScope: bounded by things and classes of things, unbounded, or unknown.
Bounded(cs, ls) == [kind |-> "bounded", concrete |-> cs, classes |-> ls]
Unbounded == [kind |-> "unbounded", concrete |-> {}, classes |-> {}]
Unknown == [kind |-> "unknown", concrete |-> {}, classes |-> {}]
Nothing == Bounded({}, {})
ResolvedScopes == {Unbounded, Unknown} \union {Bounded(cs, ls) : cs \in SUBSET Items, ls \in SUBSET Classes}

Axes == {"fs_read", "fs_write", "exec", "net"}

\* ResolvedAuthority::from_delegated
FromScope(s) == IF s.all THEN Unbounded ELSE Bounded(s.only, {})
FromDelegated(c) == [a \in Axes |-> FromScope(c[a])]

Union(s, t) ==
    CASE Unknown \in {s, t} -> Unknown
      [] Unknown \notin {s, t} /\ Unbounded \in {s, t} -> Unbounded
      [] OTHER -> Bounded(s.concrete \union t.concrete, s.classes \union t.classes)

\* A plausible bug: classes are not compared.
RelateConcrete(s, b) ==
    CASE Unknown \in {s, b} -> "unknown"
      [] Unknown \notin {s, b} /\ s = b -> "equal"
      [] Unknown \notin {s, b} /\ s # b /\ s = Unbounded -> "superset"
      [] Unknown \notin {s, b} /\ s # b /\ b = Unbounded -> "subset"
      [] OTHER -> IF s.concrete \subseteq b.concrete THEN "subset" ELSE "incomparable"

\* relate: how a fence lies to its bound.
Relate(s, b) ==
    CASE Unknown \in {s, b} -> "unknown"
      [] Unknown \notin {s, b} /\ s = b -> "equal"
      [] Unknown \notin {s, b} /\ s # b /\ s = Unbounded -> "superset"
      [] Unknown \notin {s, b} /\ s # b /\ b = Unbounded -> "subset"
      [] OTHER -> IF s.concrete \subseteq b.concrete /\ s.classes \subseteq b.classes
                  THEN "subset"
                  ELSE IF b.concrete \subseteq s.concrete /\ b.classes \subseteq s.classes
                       THEN "superset" ELSE "incomparable"

\* admit: each axis is equal to or within what was delegated and the closure.
Admits(f, delegated, cl) ==
    \A a \in Axes : Relate(f[a], Union(FromDelegated(delegated)[a], cl[a])) \in {"equal", "subset"}

-------------------------------------------------------------------------------
(* A party presents grants, and asks for a fence under the leaf of the chain *)

Quiet == [a \in Axes |-> Nothing]

AuthInit ==
    /\ grants = <<>>
    /\ fence = Quiet /\ closure = Quiet /\ admitted = FALSE

\* A grant is put before the chain with some body; it may name another parent than the
\* one it is put before, and a body that bind refuses never gets there.
Present(grant, body) ==
    /\ Len(grants) < MaxGrants
    /\ Bind(grant, body)
    /\ grants' = <<[grant |-> grant, body |-> body]>> \o grants
    /\ admitted' = FALSE /\ fence' = Quiet /\ closure' = Quiet

\* The fence of a trusted chain is decided on, one axis of it being of interest.
\* A decision changes nothing, so one for each chain is enough.
Decide(a, f, cl) ==
    /\ ~admitted /\ fence = Quiet /\ closure = Quiet
    /\ Trusted(grants)
    /\ fence' = [Quiet EXCEPT ![a] = f]
    /\ closure' = [Quiet EXCEPT ![a] = cl]
    /\ admitted' = Admits(fence', grants[1].body, closure')
    /\ UNCHANGED grants

Parents == {NoGrant} \union {grants[i].grant : i \in 1..Len(grants)}

AuthNext ==
    \/ \E c, body \in Bodies :
         \/ Present(RootGrant(c), body)
         \/ \E p \in Parents : Present(Attenuation(c, p), body)
         \/ \E p, for \in Parents, ok \in BOOLEAN :
              Present(Elevation(c, p, [signed |-> ok, parent |-> for, authority |-> c]), body)
    \/ \E a \in Axes, f, cl \in ResolvedScopes : Decide(a, f, cl)

authVars == <<grants, fence, closure, admitted>>

AuthSpec == AuthInit /\ [][AuthNext]_authVars

-------------------------------------------------------------------------------
(* Properties *)

Elevated(gs) == {i \in 1..Len(gs) : gs[i].grant.derivation.kind = "elevation"}

\* What a trusted chain commits its leaf to: no more than the configured root when
\* nothing on the way was elevated, and otherwise no more than the last elevation,
\* which was attested for the grant it stands on in this chain.
TrustedIsBounded ==
    Trusted(grants) =>
      /\ \A i \in 1..Len(grants) :
           (\A j \in Elevated(grants) : i <= j) =>
              Leq(grants[1].grant.authority, grants[i].grant.authority)
      /\ \A i \in Elevated(grants) : grants[i].grant.derivation.attestation.parent = grants[i + 1].grant

\* What a scope reaches when the classes mean what meaning says.
Reaches(s, meaning) ==
    CASE s.kind = "bounded" -> s.concrete \union UNION {meaning[l] : l \in s.classes}
      [] s.kind = "unbounded" -> Items
      [] OTHER -> {}

\* A fence that is admitted reaches nothing that neither the trusted root delegated
\* nor the closure covers, whatever the classes stand for, and is never unknown.
AdmittedWithinRoot ==
    (admitted /\ Elevated(grants) = {}) =>
      \A a \in Axes :
        /\ fence[a] # Unknown
        /\ \A meaning \in [Classes -> SUBSET Items] :
             Reaches(fence[a], meaning) \subseteq
               Reaches(FromScope(Root[a]), meaning) \union Reaches(closure[a], meaning)

\* A trusted chain of grants is bounded by its root or its last elevation, and an admitted
\* fence reaches no more than root and closure.
GrantsAreBounded == TrustedIsBounded /\ AdmittedWithinRoot

===============================================================================
