------------------------------- MODULE Certificates ----------------------------
(***************************************************************************)
(* Certificate chains (agent-mesh-protocol agent_key.rs, assertion.rs,     *)
(* envelope.rs): how agents are issued, how they delegate, to keys they    *)
(* make and to keys another party holds, and what a verifier makes of the  *)
(* chain it is shown, which may have been put together by hand.            *)
(*                                                                         *)
(* A chain is a sequence, leaf first.  A signature is the key that made it *)
(* together with what it was made over.                                    *)
(***************************************************************************)
EXTENDS Caveats, Sequences, FiniteSets

CONSTANTS
    Keys,         \* agents' keys
    Resources,    \* what caveats may scope
    Allowances,   \* the caveats that certificates are given
    Generations,  \* generations at which chains are verified
    MaxChain,     \* bound on the links of a chain
    MaxAsked      \* bound on the challenges outstanding

User == "user"

ASSUME CertAssumption ==
    User \notin Keys /\ Allowances \subseteq Caveats(Resources)

VARIABLES
    chain,   \* the chain that is being built, and shown
    minted,  \* history: every link was made by issue or certify_pubkey
    asked,   \* challenges an agent has issued for a key
    proved,  \* history: the challenges that the holder of a key has signed
    taken    \* history: keys certified on a proof, with the issuer

Link(k, c, by, sig) == [key |-> k, caveats |-> c, issuer |-> by, sig |-> sig]

\* sign_payload: the key and what it is allowed.
Signed(by, k, c) == [signer |-> by, over |-> <<k, c>>]

CertInit ==
    /\ chain = <<>> /\ minted = TRUE
    /\ asked = {} /\ proved = {} /\ taken = {}

-------------------------------------------------------------------------------
(* Issuing and delegating *)

\* AgentKey::issue, by the user.
Issue(k, c) ==
    /\ chain = <<>>
    /\ chain' = <<Link(k, c, User, Signed(User, k, c))>>
    /\ UNCHANGED <<minted, asked, proved, taken>>

\* A plausible bug: what is allowed is not held against the issuer's own caveats.
CertifyAnything(k, c) ==
    /\ chain # <<>> /\ Len(chain) < MaxChain
    /\ chain' = <<Link(k, c, chain[1].key, Signed(chain[1].key, k, c))>> \o chain

\* certify_pubkey: the holder of the leaf signs for another key, and never allows it
\* more than it is allowed itself.
CertifyPubkey(k, c) ==
    /\ chain # <<>> /\ Len(chain) < MaxChain
    /\ Leq(c, chain[1].caveats)
    /\ chain' = <<Link(k, c, chain[1].key, Signed(chain[1].key, k, c))>> \o chain

\* A new key of its own.
Delegate(k, c) ==
    /\ CertifyPubkey(k, c)
    /\ UNCHANGED <<minted, asked, proved, taken>>

\* possession_challenge: names the issuer, the subject and a nonce.
PossessionChallenge(issuer, subject) ==
    /\ Cardinality(asked) < MaxAsked
    /\ asked' = asked \union {[issuer |-> issuer, subject |-> subject,
                               nonce |-> Cardinality(asked)]}
    /\ UNCHANGED <<chain, minted, proved, taken>>

\* The holder of the subject key signs the challenge it was sent.
Prove(ch) ==
    /\ proved' = proved \union {ch}
    /\ UNCHANGED <<chain, minted, asked, taken>>

\* A plausible bug: any challenge will do, whoever issued it.
AcceptAnyProof(ch) == ch \in proved

\* delegate_external: the challenge is one of this agent's and its subject signed it.
AcceptProof(ch) == chain # <<>> /\ ch.issuer = chain[1].key /\ ch \in proved

DelegateExternal(ch, c) ==
    /\ AcceptProof(ch)
    /\ CertifyPubkey(ch.subject, c)
    /\ taken' = taken \union {[issuer |-> chain[1].key, subject |-> ch.subject]}
    /\ UNCHANGED <<minted, asked, proved>>

\* Whoever holds a key can write a link down by hand: name any issuer, allow anything,
\* and sign with its own key.
HandBuilt(k, c, by, signer) ==
    /\ Len(chain) < MaxChain
    /\ signer = by \/ signer = k
    /\ chain' = <<Link(k, c, by, Signed(signer, k, c))>> \o chain
    /\ minted' = FALSE
    /\ UNCHANGED <<asked, proved, taken>>

CertNext ==
    \/ \E k \in Keys, c \in Allowances : Issue(k, c) \/ Delegate(k, c)
    \/ \E i, k \in Keys : PossessionChallenge(i, k)
    \/ \E ch \in asked \ proved : Prove(ch)
    \/ \E ch \in asked, c \in Allowances : DelegateExternal(ch, c)
    \/ \E k \in Keys, c \in Allowances, by, s \in Keys : HandBuilt(k, c, by, s)
    \/ \E k \in Keys, c \in Allowances, s \in Keys : HandBuilt(k, c, User, s)

certVars == <<chain, minted, asked, proved, taken>>

CertSpec == CertInit /\ [][CertNext]_certVars

-------------------------------------------------------------------------------
(* Verifying *)

\* check_generation: a certificate for some generations needs one to be verified at.
CheckGeneration(scope, g) == scope.all \/ (g # {} /\ g \subseteq scope.only)

\* One link under the next: the named issuer is the parent, signed the link and
\* allows at least as much; the last link is the user's.
LinkHolds(ch, i) ==
    /\ ch[i].sig = Signed(ch[i].issuer, ch[i].key, ch[i].caveats)
    /\ IF i = Len(ch) THEN ch[i].issuer = User
       ELSE ch[i].issuer = ch[i + 1].key /\ Leq(ch[i].caveats, ch[i + 1].caveats)

\* A plausible bug: the issuer's own links are taken as verified.
VerifyLeaf(ch, g) ==
    /\ ch # <<>> /\ LinkHolds(ch, 1) /\ ch[Len(ch)].issuer = User
    /\ CheckGeneration(ch[1].caveats.valid_for_generation, g)

\* CertChain::verify and verify_at: g is empty, or holds the one generation.
VerifyInner(ch, g) ==
    /\ ch # <<>>
    /\ \A i \in 1..Len(ch) :
         LinkHolds(ch, i) /\ CheckGeneration(ch[i].caveats.valid_for_generation, g)

\* Assertion::verify: the first agent of the chain is the root that is trusted.
AssertionVerifies(ch, root, g) == VerifyInner(ch, g) /\ ch[Len(ch)].key = root

\* Assertion::verify_user: the author is certified by the user, with nobody between.
AssertionVerifiesUser(ch, g) == VerifyInner(ch, g) /\ ch[1].issuer = User

\* SignedEnvelope::verify: the chain without a generation.
EnvelopeVerifies(ch) == VerifyInner(ch, {})

-------------------------------------------------------------------------------
(* Properties *)

\* What the chain as a whole allows: the meet of its links.
Allowed(ch) == LET m[i \in 0..Len(ch)] ==
                     IF i = 0 THEN CaveatsTop ELSE Meet(m[i - 1], ch[i].caveats)
               IN m[Len(ch)]

\* A chain that verifies, however it was put together, allows its leaf no more than
\* all of its links together: no link lapses before the leaf, an assertion held to a
\* trusted root allows no more than that root, and one held to the user has nobody
\* between the two.  An envelope accepted without a generation is good in every one.
VerifiedNeverAmplifies ==
    /\ \A g \in {{}} \union {{n} : n \in Generations} :
         /\ VerifyInner(chain, g) => Allowed(chain) = chain[1].caveats
         /\ \A r \in Keys : AssertionVerifies(chain, r, g) =>
              \E i \in 1..Len(chain) : /\ chain[i].key = r /\ chain[i].issuer = User
                                       /\ Leq(chain[1].caveats, chain[i].caveats)
         /\ AssertionVerifiesUser(chain, g) => Len(chain) = 1
    /\ EnvelopeVerifies(chain) => \A n \in Generations : VerifyInner(chain, {n})

\* A chain made by issue, delegate and delegate_external verifies at exactly the
\* generations its leaf is for: nobody up the chain can have lapsed before it.
MintedVerifies ==
    (minted /\ chain # <<>>) =>
      \A n \in Generations :
         VerifyInner(chain, {n}) <=> CheckGeneration(chain[1].caveats.valid_for_generation, {n})

\* A key is certified on a proof only if its holder signed a challenge of the very
\* agent that certifies it.
TakenWithProof ==
    \A t \in taken : \E ch \in proved : ch.issuer = t.issuer /\ ch.subject = t.subject

\* Over any mix of issuing, delegating and links written by hand: a chain that verifies
\* allows no more than all of its links, a minted chain verifies exactly where its leaf is
\* valid, and a key is certified on a proof made to the certifying agent.
ChainsHold == VerifiedNeverAmplifies /\ MintedVerifies /\ TakenWithProof

===============================================================================
