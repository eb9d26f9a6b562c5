-------------------------------- MODULE MCBus --------------------------------
(***************************************************************************)
(* What decides whether an envelope counts: the sequences a bus gives out  *)
(* over its lives, the inbox that takes each envelope once, and the        *)
(* authenticated SSH session that may carry them.  A behaviour explores    *)
(* one of them.                                                            *)
(***************************************************************************)
EXTENDS BusSequence, BusInbox, SshSession, TLC

\* Agents, messages and users by name.
CONSTANTS
    a, b, c, d, m1, m2, home, abroad

VARIABLE which   \* the component that this behaviour is of

\* a, b and c are agents of one user, d is another's.
MCUserOf == [x \in Agents |-> IF x = d THEN abroad ELSE home]

\* A request and a publish of one agent to another; c and d meddle.
OneWay ==
    m1 :> [from |-> a, to |-> b, kind |-> "request"] @@
    m2 :> [from |-> a, to |-> b, kind |-> "publish"]

\* Within the user, c publishes to b and replies to a, to its request and to nothing
\* that a asked; and from abroad d answers a.
Meddling ==
    {[from |-> c, kind |-> "publish", msg |-> m2, to |-> None, at |-> b],
     [from |-> c, kind |-> "reply", msg |-> m1, to |-> a, at |-> a],
     [from |-> c, kind |-> "reply", msg |-> m2, to |-> None, at |-> a],
     [from |-> d, kind |-> "reply", msg |-> m1, to |-> a, at |-> a]}

allVars == <<which, vars, inboxVars, sshVars>>

MCInit ==
    /\ which \in {"sequence", "inbox", "ssh"}
    /\ Init
    /\ InboxInit
    /\ SshInit
    /\ which # "ssh" => who["responder"] = Wanted

\* These may come to rest.
Rests ==
    /\ which \in {"inbox", "ssh"}
    /\ UNCHANGED allVars

MCNext ==
    \/ which = "sequence" /\ Next
       /\ UNCHANGED <<which, inboxVars, sshVars>>
    \/ which = "inbox" /\ InboxNext
       /\ UNCHANGED <<which, vars, sshVars>>
    \/ which = "ssh" /\ SshNext
       /\ UNCHANGED <<which, vars, inboxVars>>
    \/ Rests

MCSpec == MCInit /\ [][MCNext]_allVars

===============================================================================
