---------------------------------- MODULE Ratchet ----------------------------------
(***************************************************************************)
(* Two-party ratchet sessions bound to mesh identities (agent-mesh-ratchet *)
(* account.rs, bundle.rs, session.rs): one-time keys and the bundles that  *)
(* publish them, bundles that others put together from what they have      *)
(* seen, sessions opened from a bundle and from a first message, and       *)
(* messages that are lost, reordered and repeated.                         *)
(*                                                                         *)
(* The double ratchet itself is the vodozemac library's, taken as given: a *)
(* message is readable once, by the session it was made for.  An account's *)
(* Curve25519 identity is named by its agent.  An agent outside of Agents  *)
(* has no key anyone trusts; `Outsider` stands for all of them.            *)
(***************************************************************************)
EXTENDS Integers, FiniteSets

CONSTANTS
    Agents,       \* agents with an account
    Users,        \* the users they belong to
    UserOf,       \* who
    Outsider,     \* someone who can put bundles together, with keys of their own
    MaxKeys,      \* bound on the one-time keys an account makes
    MaxSessions,  \* bound on the sessions initiated
    MaxMessages   \* bound on the messages of one side of a session

\* Every agent has its user, and the outsider is none of them.
ASSUME RatchetAssumption ==
    /\ MaxKeys \in Nat /\ MaxSessions \in Nat /\ MaxMessages \in Nat
    /\ UserOf \in [Agents -> Users] /\ Outsider \notin Agents

Anyone == Agents \cup {Outsider}
Key == Anyone \X (1..MaxKeys)

VARIABLES
    made,         \* one-time keys each account has made
    unpublished,  \* of those, the ones Account::one_time_keys still offers
    private,      \* the keys whose private half it holds
    bundles,      \* signed_prekey_bundle's results so far
    sessions,     \* sessions opened by an initiator
    accepted,     \* sessions opened by a responder: <<agent, session>>
    sent,         \* messages each side of a session has encrypted
    replied,      \* sessions whose initiator has read a message
    read          \* messages each agent has had the plaintext of, as a bag

ratchetVars == <<made, unpublished, private, bundles, sessions, accepted, sent, replied, read>>

\* A session as its initiator makes it: by whom, against which identity and one-time key, and
\* on whose word (a user).
Session == [id: 1..MaxSessions, by: Agents, to: Anyone, key: Key, user: Users]
Sides == {"initiator", "responder"}

\* What is signed, what it names, and who signed.
Bundle == [curve: Anyone, key: Key, cert: Agents, by: Anyone, over: Anyone \X Key]

RatchetInit ==
    /\ made = [a \in Agents |-> 0]
    /\ unpublished = [a \in Agents |-> {}] /\ private = [a \in Agents |-> {}]
    /\ bundles = {} /\ sessions = {} /\ accepted = {}
    /\ sent = [i \in 1..MaxSessions |-> [s \in Sides |-> 0]]
    /\ replied = {}
    /\ read = [i \in 1..MaxSessions |-> [s \in Sides |-> [n \in 1..MaxMessages |-> 0]]]

-------------------------------------------------------------------------------
(* RatchetAccount *)

GenerateOneTimeKeys(a, count) ==
    /\ made[a] + count <= MaxKeys
    /\ LET new == {<<a, n>> : n \in made[a] + 1..made[a] + count}
       IN /\ unpublished' = [unpublished EXCEPT ![a] = @ \cup new]
          /\ private' = [private EXCEPT ![a] = @ \cup new]
    /\ made' = [made EXCEPT ![a] = @ + count]
    /\ UNCHANGED <<bundles, sessions, accepted, sent, replied, read>>

\* signed_prekey_bundle: any one of the unpublished keys, then mark_keys_as_published, which
\* takes every key out of one_time_keys.
SignedPrekeyBundle(a) ==
    /\ \E k \in unpublished[a] :
          bundles' = bundles \cup {[curve |-> a, key |-> k, cert |-> a, by |-> a, over |-> <<a, k>>]}
    /\ unpublished' = [unpublished EXCEPT ![a] = {}]
    /\ UNCHANGED <<made, private, sessions, accepted, sent, replied, read>>

\* A bundle that reaches an initiator: one that was published, or one put together from the
\* certificates, keys and signatures of those and of the outsider.
Seen ==
    LET own == <<Outsider, <<Outsider, 1>> >>
        pairs == {own} \cup {<<b.curve, b.key>> : b \in bundles}
        sigs == {[by |-> b.by, over |-> b.over] : b \in bundles} \cup {[by |-> Outsider, over |-> own]}
    IN {[curve |-> p[1], key |-> q[2], cert |-> a, by |-> s.by, over |-> s.over] :
            p \in pairs, q \in pairs, a \in Agents, s \in sigs}

\* A plausible bug: the signature is not compared with the keys.
VerifyAnySignature(b, user) == UserOf[b.cert] = user /\ b.by = b.cert

\* SignedPrekeyBundle::verify: the chain is valid (a certificate names an agent of Agents),
\* it roots at the expected user, and the agent it names signed these very keys.
Verify(b, user) ==
    /\ UserOf[b.cert] = user
    /\ b.by = b.cert
    /\ b.over = <<b.curve, b.key>>

\* initiate: verified again, whatever the caller has done
Initiate(a, b, user) ==
    /\ Cardinality(sessions) < MaxSessions
    /\ Verify(b, user)
    /\ sessions' = sessions \cup {[id |-> Cardinality(sessions) + 1, by |-> a, to |-> b.curve,
                                   key |-> b.key, user |-> user]}
    /\ UNCHANGED <<made, unpublished, private, bundles, accepted, sent, replied, read>>

-------------------------------------------------------------------------------
(* RatchetSession *)

Has(side, s) == IF side = "initiator" THEN s \in sessions ELSE s \in accepted

\* encrypt
Encrypt(side, s) ==
    /\ Has(side, s) /\ sent[s.id][side] < MaxMessages
    /\ sent' = [sent EXCEPT ![s.id][side] = @ + 1]
    /\ UNCHANGED <<made, unpublished, private, bundles, sessions, accepted, replied, read>>

\* from_olm: an initiator's messages are pre-key messages until it has read one.  (What was
\* sent as a pre-key message stays one: the first message always is.)
PreKey(side, s, n) == side = "initiator" /\ (n = 1 \/ s \notin replied)

Plaintext(side, s, n) == read' = [read EXCEPT ![s.id][side][n] = @ + 1]

\* A plausible bug: the private half of a one-time key outlives its first use.
AcceptKept(s, peer, n) ==
    /\ n <= sent[s.id]["initiator"] /\ PreKey("initiator", s, n)
    /\ peer = s.by
    /\ s.to \in Agents /\ s.key \in private[s.to]
    /\ accepted' = accepted \cup {s}
    /\ Plaintext("initiator", s, n)
    /\ UNCHANGED <<made, unpublished, private, bundles, sessions, sent, replied>>

\* accept: a pre-key message under the identity the caller expects and a one-time key that is
\* still there; the key is gone afterwards.
Accept(s, peer, n) ==
    /\ n <= sent[s.id]["initiator"] /\ PreKey("initiator", s, n)
    /\ peer = s.by
    /\ s.to \in Agents /\ s.key \in private[s.to]
    /\ private' = [private EXCEPT ![s.to] = @ \ {s.key}]
    /\ unpublished' = [unpublished EXCEPT ![s.to] = @ \ {s.key}]
    /\ accepted' = accepted \cup {s}
    /\ Plaintext("initiator", s, n)
    /\ UNCHANGED <<made, bundles, sessions, sent, replied>>

\* decrypt: a message of the other side, whose message key has not been used
Decrypt(side, s, n) ==
    /\ Has(IF side = "initiator" THEN "responder" ELSE "initiator", s)
    /\ n <= sent[s.id][side] /\ read[s.id][side][n] = 0
    /\ Plaintext(side, s, n)
    /\ replied' = IF side = "responder" THEN replied \cup {s} ELSE replied
    /\ UNCHANGED <<made, unpublished, private, bundles, sessions, accepted, sent>>

-------------------------------------------------------------------------------
RatchetNext ==
    \/ \E a \in Agents : SignedPrekeyBundle(a) \/ \E count \in 1..MaxKeys : GenerateOneTimeKeys(a, count)
    \/ \E a \in Agents, b \in Seen, user \in Users : Initiate(a, b, user)
    \/ \E s \in sessions :
         \/ \E side \in Sides : Encrypt(side, s)
         \/ \E n \in 1..MaxMessages, peer \in Agents : Accept(s, peer, n)
         \/ \E side \in Sides, n \in 1..MaxMessages : Decrypt(side, s, n)

RatchetSpec == RatchetInit /\ [][RatchetNext]_ratchetVars

-------------------------------------------------------------------------------
(* Properties *)

\* A session opened on a user's word is with an account of one of that user's agents, and
\* uses a key that this account published: no bundle put together from pieces of others is
\* taken.  (SignedPrekeyBundle::verify.)
OpenedWithThePublisher ==
    \A s \in sessions :
        /\ s.to \in Agents /\ UserOf[s.to] = s.user
        /\ \E b \in bundles : b.cert = s.to /\ b.key = s.key

\* A one-time key opens one session and no plaintext is handed over twice, however first
\* messages are repeated to `accept` and `decrypt`, and however many peers took the same
\* bundle.
ReadOnce ==
    /\ \A s, t \in accepted : s.key = t.key => s = t
    /\ \A i \in 1..MaxSessions, side \in Sides, n \in 1..MaxMessages : read[i][side][n] <= 1

\* Both: a session is opened with the account that published the bundle (`initiate`), and
\* nothing is read twice (`accept`, `decrypt`).
RatchetReadsOnce == OpenedWithThePublisher /\ ReadOnce

===============================================================================
