------------------------------- MODULE Revocation ------------------------------
(***************************************************************************)
(* The revocation log of one user's home, and everything that reads it:    *)
(* the amesh commands that extend it (agent-mesh-cli revocation.rs), the   *)
(* guards of the processes sharing the home, with their caches and the     *)
(* Seen record (agent-mesh-protocol guard.rs), and the sessions of those   *)
(* processes, whose LiveCheck runs when an envelope arrives and again when *)
(* it is taken from the inbound queue (agent-mesh-transport revocation.rs, *)
(* agent-mesh-bus bus.rs).                                                 *)
(*                                                                         *)
(* A log is the sequence of its entries after the genesis node: a revoked  *)
(* agent, or "bump".  The id of a node stands for the whole chain up to    *)
(* it, so a head is the log that ends there.                               *)
(***************************************************************************)
EXTENDS Integers, Sequences, SequencesExt, FiniteSets

CONSTANTS
    Guards,     \* processes that verify peers against the log of this home
    Commands,   \* amesh commands that may run side by side
    Peer,       \* the agent at the other end of every session
    Parent,     \* the agent that delegated to Peer
    Scoped,     \* whether Peer's certificate is for the first generation only
    MaxLog,     \* bound on the entries of the log
    MaxQueue,   \* bound on the envelopes waiting for the bus
    MaxCalls    \* bound on the checks made

NoLog == <<"none">>
Refused == <<"refused">>
Free == 0

\* The marks of the model name no process and no agent.
ASSUME RevocationAssumption ==
    /\ Scoped \in BOOLEAN /\ MaxLog \in Nat /\ MaxQueue \in Nat /\ MaxCalls \in Nat
    /\ Free \notin Guards \union Commands
    /\ {Peer, Parent} \intersect {"none", "refused", "bump", "init"} = {}

VARIABLES
    log,       \* revocation.json
    seen,      \* revocation.seen.json, or NoLog before the first guard
    logLock,   \* the command that holds the lock of the log
    seenLock,  \* the guard that holds the lock of the Seen record
    command,   \* what each command is doing, with the log it has read
    guard,     \* what each guard is doing: for which call, with which bytes
    cache,     \* RevocationGuard.cache
    live,      \* LiveCheck.state of the guard's session
    queue,     \* admitted envelopes that wait for the bus
    \* history
    reported,  \* agents that a finished command has reported as revoked
    restored,  \* whether the log was put back to an older copy
    knew,      \* what was reported when a guard's present call began
    top,       \* the log by which a guard last decided
    handed,    \* turned over whenever an envelope is handed to the bus
    calls      \* checks made so far

vars == <<log, seen, logLock, seenLock, command, guard, cache, live, queue, reported,
          restored, knew, top, handed, calls>>
files == <<log, logLock, command, reported, restored>>
checks == <<seen, seenLock, guard, cache, live, queue, knew, top, handed, calls>>

Resting == [pc |-> "rest", op |-> "none", read |-> NoLog]
Idle == [pc |-> "idle", why |-> "none", bytes |-> NoLog]

\* RevocationLog::verify: what a log says.
RevokedBy(l) == ToSet(l) \ {"bump"}
Generation(l) == Len(SelectSeq(l, LAMBDA x : x = "bump"))

\* CertChain::verify_with: every link of the chain, and the generation.
VerifyWith(l) ==
    /\ {Peer, Parent} \intersect RevokedBy(l) = {}
    /\ ~Scoped \/ Generation(l) = 0

Init ==
    /\ log \in {NoLog, <<>>}
    /\ seen = NoLog
    /\ logLock = Free /\ seenLock = Free
    /\ command = [c \in Commands |-> Resting]
    /\ guard = [g \in Guards |-> Idle]
    /\ cache = [g \in Guards |-> NoLog]
    /\ live = [g \in Guards |-> NoLog]
    /\ queue = [g \in Guards |-> 0]
    /\ reported = {} /\ restored = FALSE
    /\ knew = [g \in Guards |-> {}]
    /\ top = <<>> /\ handed = FALSE /\ calls = 0

-------------------------------------------------------------------------------
(* The commands *)

Ops == {Peer, Parent, "bump", "init"}

\* A plausible bug: the lock is not taken.
BeginUnlocked(c) ==
    /\ command[c].pc = "rest"
    /\ command' = [command EXCEPT ![c].pc = "locked"]
    /\ UNCHANGED <<log, logLock, reported, restored, checks>>

\* locked: the whole command runs under the lock of the log.
Begin(c) ==
    /\ command[c].pc = "rest" /\ logLock = Free
    /\ logLock' = c
    /\ command' = [command EXCEPT ![c].pc = "locked"]
    /\ UNCHANGED <<log, reported, restored, checks>>

Over(c) ==
    /\ logLock' = IF logLock = c THEN Free ELSE logLock
    /\ command' = [command EXCEPT ![c] = Resting]

\* init refuses a log that exists; the others need one that verifies, and an agent
\* already in it is reported at once.
Read(c, op) ==
    /\ command[c].pc = "locked"
    /\ \/ /\ IF op = "init" THEN log # NoLog ELSE log = NoLog
          /\ Over(c) /\ UNCHANGED reported
       \/ /\ op # "init" /\ log # NoLog /\ op \in RevokedBy(log)
          /\ Over(c) /\ reported' = reported \union {op}
       \/ /\ IF op = "init" THEN log = NoLog ELSE log # NoLog /\ op \notin RevokedBy(log)
          /\ command' = [command EXCEPT ![c] = [pc |-> "read", op |-> op, read |-> log]]
          /\ UNCHANGED <<logLock, reported>>
    /\ UNCHANGED <<log, restored, checks>>

Appended(c) == IF command[c].op = "init" THEN <<>> ELSE Append(command[c].read, command[c].op)

\* RevocationLog::extends, which save asks of the log in place.
Extends(new, old) == old = NoLog \/ IsPrefix(old, new)

\* save looks at the log in place first: the new one must extend it.
SaveChecks(c) ==
    /\ command[c].pc = "read" /\ Len(Appended(c)) <= MaxLog
    /\ IF Extends(Appended(c), log)
       THEN command' = [command EXCEPT ![c].pc = "checked"] /\ UNCHANGED logLock
       ELSE Over(c)
    /\ UNCHANGED <<log, reported, restored, checks>>

\* Then the new log replaces it, by rename.  A failure to sync the directory is an
\* error although the new log is in place.
SaveWrites(c) ==
    /\ command[c].pc = "checked"
    /\ log' = Appended(c)
    /\ \/ reported' = reported \union ({command[c].op} \ {"bump", "init"})
       \/ UNCHANGED reported
    /\ Over(c)
    /\ UNCHANGED <<restored, checks>>

\* A command that is killed leaves the lock free.
CommandDies(c) ==
    /\ command[c].pc # "rest"
    /\ Over(c)
    /\ UNCHANGED <<log, reported, restored, checks>>

\* The owner puts an older copy of the log back, once.
Restore ==
    /\ ~restored /\ log # NoLog /\ log # <<>>
    /\ log' = Front(log)
    /\ restored' = TRUE
    /\ UNCHANGED <<logLock, command, reported, checks>>

-------------------------------------------------------------------------------
(* The guard *)

\* What a refused check does to the call it was made for: the session is down, and
\* an envelope that waited is dropped.
Refuse(g) ==
    /\ live' = [live EXCEPT ![g] = IF guard[g].why = "connect" THEN @ ELSE Refused]
    /\ queue' = [queue EXCEPT ![g] = IF guard[g].why = "take" THEN @ - 1 ELSE @]
    /\ guard' = [guard EXCEPT ![g] = Idle]
    /\ UNCHANGED handed

\* A plausible bug: an envelope taken from the queue is not checked again.
CallUnlessQueued(g, why) ==
    /\ guard[g] = Idle /\ calls < MaxCalls
    /\ calls' = calls + 1
    /\ CASE why = "connect" -> live[g] = NoLog
         [] why = "arrive"  -> live[g] \notin {NoLog, Refused} /\ queue[g] < MaxQueue
         [] why = "take"    -> queue[g] > 0
    /\ knew' = [knew EXCEPT ![g] = reported]
    /\ IF why = "take"
       THEN /\ queue' = [queue EXCEPT ![g] = @ - 1]
            /\ handed' = ~handed
            /\ UNCHANGED <<guard, cache>>
       ELSE /\ log # NoLog
            /\ guard' = [guard EXCEPT ![g] = [pc |-> "read", why |-> why, bytes |-> log]]
            /\ UNCHANGED <<queue, handed, cache>>
    /\ UNCHANGED <<files, seen, seenLock, live, top>>

\* LiveCheck::new when a peer connects, LiveCheck::admit when an envelope arrives
\* and when the bus takes one.  A session once refused stays so; otherwise the log
\* is read, and without one nothing passes.
Call(g, why) ==
    /\ guard[g] = Idle /\ calls < MaxCalls
    /\ calls' = calls + 1
    /\ CASE why = "connect" -> live[g] = NoLog
         [] why = "arrive"  -> live[g] \notin {NoLog, Refused} /\ queue[g] < MaxQueue
         [] why = "take"    -> queue[g] > 0
    /\ knew' = [knew EXCEPT ![g] = reported]
    /\ IF (why # "connect" /\ live[g] = Refused) \/ log = NoLog
       THEN /\ live' = [live EXCEPT ![g] = IF why = "connect" THEN @ ELSE Refused]
            /\ queue' = [queue EXCEPT ![g] = IF why = "take" THEN @ - 1 ELSE @]
            /\ cache' = [cache EXCEPT ![g] = IF log = NoLog THEN NoLog ELSE @]
            /\ UNCHANGED guard
       ELSE /\ guard' = [guard EXCEPT ![g] = [pc |-> "read", why |-> why, bytes |-> log]]
            /\ UNCHANGED <<live, queue, cache>>
    /\ UNCHANGED <<files, seen, seenLock, top, handed>>

\* The peer against the state of a log: the chain is checked again unless the head
\* is the one it passed last.
Verdict(g, l) ==
    /\ top' = l
    /\ IF (guard[g].why # "connect" /\ live[g] = l) \/ VerifyWith(l)
       THEN /\ live' = [live EXCEPT ![g] = l]
            /\ queue' = [queue EXCEPT ![g] = CASE guard[g].why = "arrive" -> @ + 1
                                               [] guard[g].why = "take" -> @ - 1
                                               [] OTHER -> @]
            /\ handed' = IF guard[g].why = "take" THEN ~handed ELSE handed
            /\ guard' = [guard EXCEPT ![g] = Idle]
       ELSE Refuse(g)

\* A plausible bug: unchanged bytes are enough for the cache to stand.
FreshBytes(g) == cache[g] # NoLog /\ cache[g] = guard[g].bytes

\* The cache stands while the bytes are those it was made from and Seen is exactly
\* what it persisted: another guard may have moved it on.
CacheStands(g) == cache[g] # NoLog /\ cache[g] = guard[g].bytes /\ seen = cache[g]

Hit(g) ==
    /\ guard[g].pc = "read" /\ CacheStands(g)
    /\ Verdict(g, cache[g])
    /\ UNCHANGED <<files, seen, seenLock, cache, knew, calls>>

\* Otherwise the old view is forgotten and the log loaded under the Seen lock.
Miss(g) ==
    /\ guard[g].pc = "read" /\ ~CacheStands(g)
    /\ seenLock = Free
    /\ seenLock' = g
    /\ cache' = [cache EXCEPT ![g] = NoLog]
    /\ guard' = [guard EXCEPT ![g].pc = "locked"]
    /\ UNCHANGED <<files, seen, live, queue, knew, top, handed, calls>>

\* load reads the log inside the lock and wants it to extend what was seen.
Load(g) ==
    /\ guard[g].pc = "locked"
    /\ IF log # NoLog /\ (seen = NoLog \/ IsPrefix(seen, log))
       THEN /\ guard' = [guard EXCEPT ![g].pc = "verified", ![g].bytes = log]
            /\ UNCHANGED <<seenLock, live, queue, top, handed>>
       ELSE Refuse(g) /\ seenLock' = Free /\ UNCHANGED top
    /\ UNCHANGED <<files, seen, cache, knew, calls>>

\* Seen is moved forward, and on disk, before the state is used; a write that fails
\* refuses the call.
Advance(g) ==
    /\ guard[g].pc = "verified"
    /\ seenLock' = Free
    /\ \/ /\ seen' = guard[g].bytes
          /\ cache' = [cache EXCEPT ![g] = guard[g].bytes]
          /\ Verdict(g, guard[g].bytes)
       \/ /\ seen # guard[g].bytes /\ seen' \in {seen, guard[g].bytes}
          /\ Refuse(g) /\ UNCHANGED <<cache, top>>
    /\ UNCHANGED <<files, knew, calls>>

\* A process restarts: what it held in memory is gone.
Restart(g) ==
    /\ cache[g] # NoLog \/ guard[g] # Idle
    /\ guard' = [guard EXCEPT ![g] = Idle]
    /\ cache' = [cache EXCEPT ![g] = NoLog]
    /\ live' = [live EXCEPT ![g] = NoLog]
    /\ queue' = [queue EXCEPT ![g] = 0]
    /\ seenLock' = IF seenLock = g THEN Free ELSE seenLock
    /\ UNCHANGED <<files, seen, knew, top, handed, calls>>

Next ==
    \/ \E c \in Commands :
         Begin(c) \/ (\E op \in Ops : Read(c, op)) \/ SaveChecks(c) \/ SaveWrites(c)
         \/ CommandDies(c)
    \/ Restore
    \/ \E g \in Guards :
         \/ \E why \in {"connect", "arrive", "take"} : Call(g, why)
         \/ Hit(g) \/ Miss(g) \/ Load(g) \/ Advance(g) \/ Restart(g)

Spec == Init /\ [][Next]_vars

-------------------------------------------------------------------------------
(* Properties *)

\* The logs by which the guards of one home decide only ever grow, whichever guard
\* decides: after an older copy is put back, no cache and no other process accepts
\* a peer by it.
DecidedByGrowingLogs == [][IsPrefix(top, top')]_vars

\* What a command has reported as revoked is in the log, although commands run side
\* by side and may be killed; only the owner's own restore can take it back.
NoRevocationLost ==
    (~restored /\ log # NoLog) => reported \subseteq RevokedBy(log)

\* An envelope is not handed to the bus by a check that began after its sender, or
\* the agent that delegated to it, was reported as revoked, however long it waited
\* in the queue.
RevokedIsNotHanded ==
    [][handed' # handed =>
         restored \/ \E g \in Guards :
            queue'[g] < queue[g] /\ {Peer, Parent} \intersect knew'[g] = {}]_vars

\* Guards decide by logs that only grow, and an envelope that waited is not handed on
\* once its sender is known to be revoked.
RevocationLasts == DecidedByGrowingLogs /\ RevokedIsNotHanded

===============================================================================
